---- MODULE Spec2Model ----
(***************************************************************************)
(* pgvector-cpp: the runtime-dispatched kernel engine.                     *)
(*                                                                         *)
(*   - bit-vector kernels (bitutils.cpp): Hamming / Jaccard, scalar and    *)
(*     AVX-512, over byte buffers;                                         *)
(*   - the half-precision codec (halfutils.cpp): half_to_float_manual and  *)
(*     float_to_half_manual over bit patterns;                             *)
(*   - the dispatchers (BitUtils singleton, HalfDistanceCalculator         *)
(*     statics), stepped statement by statement for several threads.       *)
(*                                                                         *)
(*   - the vector types above the kernels: Vector (vector.hpp), BitVec     *)
(*     (bitvec.cpp) and the half-vector functions of halfvec.cpp.          *)
(*                                                                         *)
(* The specifications share the variables:                                 *)
(*   SpecBits     the bit kernels applied to bounded buffers,              *)
(*   SpecCodec    the codec applied to half and float bit patterns,        *)
(*   SpecHalf     the half-vector kernels applied to bounded arrays,       *)
(*   Spec         the dispatchers under interleaving,                      *)
(*   SpecVector   the construction of a Vector,                            *)
(*   SpecBitVec   the lifetime of BitVec objects and their buffers,        *)
(*   SpecHalfVec  concat_halfvecs and extract_subvector.                   *)
(***************************************************************************)
EXTENDS Integers, Sequences, FiniteSets, TLC

VARIABLES
    \* ---- build and machine (fixed for the life of a process)
    AVX512F,                    \* the build defines __AVX512F__
    F16C_SUPPORT,               \* the build defines F16C_SUPPORT
    cpu_f16c,                   \* cpuid leaf 1 reports F16C on this machine
    cpu_avx512,                 \* this machine executes AVX-512 instructions
    \* ---- BitUtils (bitutils.cpp)
    instance,                   \* BitUtils::instance is non-null
    hamming_distance_func,      \* BitUtils::hamming_distance_func
    jaccard_distance_func,      \* BitUtils::jaccard_distance_func
    BitHammingDistance,         \* the C global function pointer
    BitJaccardDistance,         \* the C global function pointer
    \* ---- HalfDistanceCalculator statics (halfutils.cpp)
    initialized_,
    has_f16c_support_,
    l2_squared_distance_func_,
    inner_product_func_,
    cosine_similarity_func_,
    l1_distance_func_,
    \* ---- threads of the dispatcher specification
    phase,                      \* "static_init" before main, then "running"
    pc,                         \* pc[t]: the statement thread t is at
    sel,                        \* sel[t]: the branch t took at halfutils.cpp:94
    obs,                        \* obs[t]: what t's last kernel call observed
    \* ---- one kernel call on caller-owned buffers (SpecBits)
    k_bytes,                    \* byteCount
    k_a,                        \* buffer a
    k_b,                        \* buffer b
    k_seed,                     \* seed / andSeed
    k_call,                     \* the call made and what it returned
    \* ---- one half-vector kernel call on caller-owned arrays (SpecHalf)
    v_dim,                      \* dim
    v_ax,                       \* ax: nullptr, or an array of halves
    v_bx,                       \* bx: nullptr, or an array of halves
    v_call,                     \* the call made and how it ended
    \* ---- one codec round trip (SpecCodec)
    c_mode,                     \* "half": h -> f -> h', "float": f -> h -> f'
    c_pc,                       \* conversions applied so far
    c_h0,                       \* the half the round trip started from
    c_f0,                       \* the float the round trip started from
    c_half,                     \* the current half value
    c_float,                    \* the current float value
    \* ---- one Vector object (SpecVector)
    vec_arg,                    \* the int given to Vector::Vector(int)
    vec_obj,                    \* the object constructed, or the exception
    vec_got,                    \* what getDim() returned
    \* ---- BitVec objects and the VarBit buffers they own (SpecBitVec)
    bv_heap,                    \* bv_heap[p]: the palloc'ed buffer at address p
    bv_obj,                     \* bv_obj[s]: the BitVec object in storage s
    bv_raw,                     \* the addresses InitBitVector has returned
    bv_fault,                   \* a double free or a use after free, once made
    bv_call,                    \* the last operation and how it ended
    \* ---- half vectors of the type layer (SpecHalfVec)
    hv_a,                       \* HalfVector a
    hv_b,                       \* HalfVector b
    hv_c,                       \* concat_halfvecs(a, b), once called
    hv_sub                      \* extract_subvector(c, start, end), once called

buildVars == <<AVX512F, F16C_SUPPORT, cpu_f16c, cpu_avx512>>
bitVars == <<instance, hamming_distance_func, jaccard_distance_func,
             BitHammingDistance, BitJaccardDistance>>
halfVars == <<initialized_, has_f16c_support_, l2_squared_distance_func_,
              inner_product_func_, cosine_similarity_func_, l1_distance_func_>>
threadVars == <<phase, pc, sel, obs>>
kernelVars == <<k_bytes, k_a, k_b, k_seed, k_call>>
codecVars == <<c_mode, c_pc, c_h0, c_f0, c_half, c_float>>
halfKernelVars == <<v_dim, v_ax, v_bx, v_call>>
vectorVars == <<vec_arg, vec_obj, vec_got>>
bitvecVars == <<bv_heap, bv_obj, bv_raw, bv_fault, bv_call>>
halfvecVars == <<hv_a, hv_b, hv_c, hv_sub>>
typeVars == <<vectorVars, bitvecVars, halfvecVars>>
vars == <<buildVars, bitVars, halfVars, threadVars, kernelVars, codecVars,
          halfKernelVars, typeVars>>

-----------------------------------------------------------------------------
(* Bounds of the model.                                                    *)

\* Buffers of 64 * blocks + tail bytes, blocks in 0..MaxBlocks and tail in
\* 0..MaxTail: the block loop runs 0 and 1 times, the word loop of the
\* remainder 0, 1 and 2 times, its byte loop 0 to 7 times.
MaxBlocks == 1
MaxTail == 17
\* Seeds 0..MaxSeed.
MaxSeed == 1
\* The ignored Jaccard arguments aa, bb range over 0..MaxNorm.
MaxNorm == 1
\* Threads 1..NumThreads.
NumThreads == 2
\* Float inputs: every sign and exponent field, with the top ten mantissa
\* bits in 0..MaxHi or 1023 - MaxHi..1023 and the thirteen discarded bits
\* around the rounding bit.
MaxHi == 1

\* Half vectors of 8 * blocks + tail elements, blocks in 0..MaxHalfBlocks and
\* tail in 0..MaxHalfTail: dimensions below, at and above the 8-lane width.
MaxHalfBlocks == 1
MaxHalfTail == 3

\* Vector dimensions within MaxVecDim of 0, of 32768 and of 65536, next to
\* those around VECTOR_MAX_DIM.
MaxVecDim == 12
\* BitVec objects live in storage 1..MaxObjs, over at most MaxBufs
\* allocations, with bit lengths 1..MaxBitLen (and the refused length 0).
MaxObjs == 2
MaxBufs == 3
MaxBitLen == 2
\* Half vectors of the type layer have 1..MaxHvDim elements, next to those
\* whose dimensions add up to around HALFVEC_MAX_DIM.
MaxHvDim == 2

-----------------------------------------------------------------------------
(* Machine arithmetic on bit patterns.                                     *)

Byte == 0..255

RECURSIVE BitAnd(_, _)
BitAnd(x, y) ==
    IF x = 0 \/ y = 0 THEN 0
    ELSE (x % 2) * (y % 2) + 2 * BitAnd(x \div 2, y \div 2)

RECURSIVE BitOr(_, _)
BitOr(x, y) ==
    IF x = 0 THEN y
    ELSE IF y = 0 THEN x
    ELSE (IF x % 2 = 1 \/ y % 2 = 1 THEN 1 ELSE 0) + 2 * BitOr(x \div 2, y \div 2)

RECURSIVE BitXor(_, _)
BitXor(x, y) ==
    IF x = 0 THEN y
    ELSE IF y = 0 THEN x
    ELSE (IF x % 2 # y % 2 THEN 1 ELSE 0) + 2 * BitXor(x \div 2, y \div 2)

RECURSIVE Pow2(_)
Pow2(n) == IF n = 0 THEN 1 ELSE 2 * Pow2(n - 1)

\* The byte operators, tabulated once.
AndTab == [x \in Byte |-> [y \in Byte |-> BitAnd(x, y)]]
OrTab == [x \in Byte |-> [y \in Byte |-> BitOr(x, y)]]
XorTab == [x \in Byte |-> [y \in Byte |-> BitXor(x, y)]]

\* popcount_u64 on one byte limb: Brian Kernighan's loop, x &= x - 1 until
\* x is zero, counting the iterations.
RECURSIVE KernighanCount(_)
KernighanCount(x) ==
    IF x = 0 THEN 0 ELSE 1 + KernighanCount(AndTab[x][x - 1])

KernighanTab == [x \in Byte |-> KernighanCount(x)]

\* A 64-bit (or narrower) value is its little-endian byte limbs.  x - 1
\* borrows through the zero low limbs and stops at the lowest nonzero one, so
\* x & (x - 1) runs Kernighan's loop limb by limb from the low end.
RECURSIVE popcount_u64(_)
popcount_u64(x) ==
    IF x = <<>> THEN 0
    ELSE KernighanTab[Head(x)] + popcount_u64(Tail(x))

\* _mm_popcnt_u64: the POPCNT instruction, the number of one bits.
OnesTab ==
    [x \in Byte |-> Cardinality({k \in 0..7 : (x \div Pow2(k)) % 2 = 1})]

RECURSIVE mm_popcnt_u64(_)
mm_popcnt_u64(x) ==
    IF x = <<>> THEN 0
    ELSE OnesTab[Head(x)] + mm_popcnt_u64(Tail(x))

-----------------------------------------------------------------------------
(* Pointers into caller-owned buffers.                                     *)

\* unsigned char* p: a buffer and an offset into it.
Ptr(buf) == [buf |-> buf, off |-> 0]
Advance(p, n) == [p EXCEPT !.off = @ + n]
\* p[i]
Load8(p, i) == p.buf[p.off + i + 1]
\* The w bytes at p, as limbs: *(uint64_t*)p for w = 8.
LoadLimbs(p, w) == [i \in 1..w |-> p.buf[p.off + i]]

\* A plausible slip: a & ~b written for a ^ b.
LimbsAndNot(x, y) == [i \in 1..Len(x) |-> AndTab[x[i]][XorTab[y[i]][255]]]

\* x ^ y, x & y, x | y on equally wide values
LimbsXor(x, y) == [i \in 1..Len(x) |-> XorTab[x[i]][y[i]]]
LimbsAnd(x, y) == [i \in 1..Len(x) |-> AndTab[x[i]][y[i]]]
LimbsOr(x, y) == [i \in 1..Len(x) |-> OrTab[x[i]][y[i]]]

\* sizeof(uint64_t)
WordBytes == 8
\* The AVX-512 register width in bytes.
BlockBytes == 64

-----------------------------------------------------------------------------
(* double results.  A quotient of two counts is kept as the exact          *)
(* fraction in lowest terms: for the counts of this model (below 2^53) the *)
(* conversions to double are exact, IEEE division and subtraction are      *)
(* correctly rounded functions of the exact value, and two distinct        *)
(* fractions with denominators this small never round to the same double.  *)

RECURSIVE Gcd(_, _)
Gcd(x, y) == IF y = 0 THEN x ELSE Gcd(y, x % y)

Abs(x) == IF x < 0 THEN -x ELSE x

Frac(n, d) ==
    LET g == Gcd(Abs(n), d)
    IN  [num |-> n \div g, den |-> d \div g]

\* 0.0
DZero == [num |-> 0, den |-> 1]
\* 1.0 - ((double)and_data / (double)or_data), or_data # 0
OneMinusRatio(and_data, or_data) == Frac(or_data - and_data, or_data)

-----------------------------------------------------------------------------
(* Scalar bit kernels (bitutils.cpp, anonymous namespace).                 *)

\* A loop's registers: the bytes left, the two cursors, the counters.
Regs(bytes, ax, bx, v, w) == [bytes |-> bytes, ax |-> ax, bx |-> bx, v |-> v, w |-> w]

\* while (bytes >= sizeof(uint64_t)) { v += popcount_u64(*ax64 ^ *bx64); ... }
RECURSIVE hamming_default_words(_)
hamming_default_words(r) ==
    IF r.bytes >= WordBytes
    THEN hamming_default_words(
            Regs(r.bytes - WordBytes, Advance(r.ax, WordBytes), Advance(r.bx, WordBytes),
                 r.v + popcount_u64(LimbsXor(LoadLimbs(r.ax, WordBytes),
                                             LoadLimbs(r.bx, WordBytes))),
                 r.w))
    ELSE r

\* while (bytes > 0) { v += popcount_u64(*ax8 ^ *bx8); ... }
RECURSIVE hamming_default_bytes(_)
hamming_default_bytes(r) ==
    IF r.bytes > 0
    THEN hamming_default_bytes(
            Regs(r.bytes - 1, Advance(r.ax, 1), Advance(r.bx, 1),
                 r.v + popcount_u64(LimbsXor(<<Load8(r.ax, 0)>>, <<Load8(r.bx, 0)>>)),
                 r.w))
    ELSE r

\* A plausible slip: the remainder loop stops one byte early (bytes > 1).
RECURSIVE hamming_default_bytes_short(_)
hamming_default_bytes_short(r) ==
    IF r.bytes > 1
    THEN hamming_default_bytes_short(
            Regs(r.bytes - 1, Advance(r.ax, 1), Advance(r.bx, 1),
                 r.v + popcount_u64(LimbsXor(<<Load8(r.ax, 0)>>, <<Load8(r.bx, 0)>>)),
                 r.w))
    ELSE r

hamming_distance_default_short(bytes, ax, bx, distance) ==
    hamming_default_bytes_short(
        hamming_default_words(Regs(bytes, ax, bx, distance, 0))).v

\* A plausible slip: v starts at 0 instead of at the seed.
hamming_distance_default_noseed(bytes, ax, bx, distance) ==
    hamming_default_bytes(
        hamming_default_words(Regs(bytes, ax, bx, 0, 0))).v

\* uint64_t hamming_distance_default(bytes, ax, bx, distance)
hamming_distance_default(bytes, ax, bx, distance) ==
    hamming_default_bytes(
        hamming_default_words(Regs(bytes, ax, bx, distance, 0))).v

\* while (bytes >= sizeof(uint64_t)) { and_data += ...; or_data += ...; ... }
\* v is and_data, w is or_data.
RECURSIVE jaccard_default_words(_)
jaccard_default_words(r) ==
    IF r.bytes >= WordBytes
    THEN LET x == LoadLimbs(r.ax, WordBytes)
             y == LoadLimbs(r.bx, WordBytes)
         IN  jaccard_default_words(
                Regs(r.bytes - WordBytes, Advance(r.ax, WordBytes),
                     Advance(r.bx, WordBytes),
                     r.v + popcount_u64(LimbsAnd(x, y)),
                     r.w + popcount_u64(LimbsOr(x, y))))
    ELSE r

\* while (bytes > 0) { and_data += ...; or_data += ...; ... }
RECURSIVE jaccard_default_bytes(_)
jaccard_default_bytes(r) ==
    IF r.bytes > 0
    THEN jaccard_default_bytes(
            Regs(r.bytes - 1, Advance(r.ax, 1), Advance(r.bx, 1),
                 r.v + popcount_u64(LimbsAnd(<<Load8(r.ax, 0)>>, <<Load8(r.bx, 0)>>)),
                 r.w + popcount_u64(LimbsOr(<<Load8(r.ax, 0)>>, <<Load8(r.bx, 0)>>))))
    ELSE r

\* A plausible slip: or_data starts from the norms, aa + bb, instead of 0.
jaccard_distance_default_norms(bytes, ax, bx, ab, aa, bb) ==
    LET r == jaccard_default_bytes(
                jaccard_default_words(Regs(bytes, ax, bx, ab, aa + bb)))
    IN  IF r.w = 0 THEN DZero ELSE OneMinusRatio(r.v, r.w)

jaccard_distance_default(bytes, ax, bx, ab, aa, bb) ==
    LET r == jaccard_default_bytes(
                jaccard_default_words(Regs(bytes, ax, bx, ab, 0)))
    IN  IF r.w = 0 THEN DZero ELSE OneMinusRatio(r.v, r.w)

-----------------------------------------------------------------------------
(* AVX-512 bit kernels (bitutils.cpp, #ifdef __AVX512F__).                 *)

\* _mm512_extracti64_epi64(x, i): the i-th 64-bit lane of a 64-byte register.
Lane(x, i) == [j \in 1..WordBytes |-> x[WordBytes * i + j]]

\* for (int i = 0; i < 8; i++) v += _mm_popcnt_u64(lane i)
RECURSIVE LanePopcounts(_, _)
LanePopcounts(x, i) ==
    IF i < BlockBytes \div WordBytes
    THEN mm_popcnt_u64(Lane(x, i)) + LanePopcounts(x, i + 1)
    ELSE 0

\* while (bytes >= 64) { ... v += popcounts of a ^ b ...; bytes -= 64; }
RECURSIVE hamming_avx512_blocks(_)
hamming_avx512_blocks(r) ==
    IF r.bytes >= BlockBytes
    THEN hamming_avx512_blocks(
            Regs(r.bytes - BlockBytes, Advance(r.ax, BlockBytes),
                 Advance(r.bx, BlockBytes),
                 r.v + LanePopcounts(LimbsXor(LoadLimbs(r.ax, BlockBytes),
                                              LoadLimbs(r.bx, BlockBytes)), 0),
                 r.w))
    ELSE r

\* A plausible slip: the fallback for the remaining bytes is left out.
hamming_distance_avx512_popcount_notail(bytes, ax, bx, distance) ==
    hamming_avx512_blocks(Regs(bytes, ax, bx, distance, 0)).v

\* A plausible slip: the fallback starts again from the caller's seed and
\* drops the count of the blocks.
hamming_distance_avx512_popcount_restart(bytes, ax, bx, distance) ==
    LET r == hamming_avx512_blocks(Regs(bytes, ax, bx, distance, 0))
    IN  IF r.bytes > 0
        THEN hamming_distance_default(r.bytes, r.ax, r.bx, distance)
        ELSE r.v

\* uint64_t hamming_distance_avx512_popcount(bytes, ax, bx, distance)

hamming_distance_avx512_popcount(bytes, ax, bx, distance) ==
    LET r == hamming_avx512_blocks(Regs(bytes, ax, bx, distance, 0))
    IN  IF r.bytes > 0
        THEN hamming_distance_default(r.bytes, r.ax, r.bx, r.v)
        ELSE r.v

\* while (bytes >= 64) { ... and_data += ...; or_data += ...; bytes -= 64; }
RECURSIVE jaccard_avx512_blocks(_)
jaccard_avx512_blocks(r) ==
    IF r.bytes >= BlockBytes
    THEN LET x == LoadLimbs(r.ax, BlockBytes)
             y == LoadLimbs(r.bx, BlockBytes)
         IN  jaccard_avx512_blocks(
                Regs(r.bytes - BlockBytes, Advance(r.ax, BlockBytes),
                     Advance(r.bx, BlockBytes),
                     r.v + LanePopcounts(LimbsAnd(x, y), 0),
                     r.w + LanePopcounts(LimbsOr(x, y), 0)))
    ELSE r

\* The fallback hands the scalar kernel and_data as its seed; the or_data of
\* the blocks is not handed over, and the scalar kernel's result is returned.
jaccard_distance_avx512_popcount(bytes, ax, bx, ab, aa, bb) ==
    LET r == jaccard_avx512_blocks(Regs(bytes, ax, bx, ab, 0))
    IN  IF r.bytes > 0
        THEN jaccard_distance_default(r.bytes, r.ax, r.bx, r.v, aa, bb)
        ELSE IF r.w = 0 THEN DZero ELSE OneMinusRatio(r.v, r.w)


-----------------------------------------------------------------------------
(* BitUtils dispatch (bitutils.cpp:171-222).                               *)

\* constexpr bool BitUtils::supports_avx512_popcount(): decided by the build.
supports_avx512_popcount == AVX512F

\* What BitUtils::initialize() leaves bound once it has run to its end.
BoundBitKernel == IF supports_avx512_popcount THEN "avx512" ELSE "default"

\* Calling through a bound std::function.
InvokeHamming(f, bytes, ax, bx, distance) ==
    IF f = "avx512"
    THEN hamming_distance_avx512_popcount(bytes, ax, bx, distance)
    ELSE hamming_distance_default(bytes, ax, bx, distance)

InvokeJaccard(f, bytes, ax, bx, ab, aa, bb) ==
    IF f = "avx512"
    THEN jaccard_distance_avx512_popcount(bytes, ax, bx, ab, aa, bb)
    ELSE jaccard_distance_default(bytes, ax, bx, ab, aa, bb)

\* uint64_t BitUtils::hamming_distance(...)
BitUtils_hamming_distance(bytes, ax, bx, distance) ==
    InvokeHamming(hamming_distance_func, bytes, ax, bx, distance)

\* double BitUtils::jaccard_distance(...)
BitUtils_jaccard_distance(bytes, ax, bx, ab, aa, bb) ==
    InvokeJaccard(jaccard_distance_func, bytes, ax, bx, ab, aa, bb)

-----------------------------------------------------------------------------
(* SpecBits: one kernel call on bounded caller-owned buffers.              *)

\* The buffers: base, base + step, base + 2 step, ... modulo 256.  Step 0
\* gives the all-zero and all-0xFF buffers; the odd steps run through every
\* byte value, with the set bits at different places in each byte.
BufBases == {0, 255}
BufSteps == {0, 37}
Buf(n, base, step) == [i \in 1..n |-> (base + (i - 1) * step) % 256]
Buffers(n) == {Buf(n, base, step) : base \in BufBases, step \in BufSteps}

ByteCounts ==
    {BlockBytes * blocks + tail : blocks \in 0..MaxBlocks, tail \in 0..MaxTail}

\* The values given for the two norm arguments aa, bb.
Norms == {<<n, MaxNorm - n>> : n \in 0..MaxNorm}

NoCall == [fn |-> "none", aa |-> 0, bb |-> 0, ret |-> 0]
Called(fn, aa, bb, ret) == [fn |-> fn, aa |-> aa, bb |-> bb, ret |-> ret]

\* The dispatcher as static initialization leaves it, nothing else started.
DispatcherIdle ==
    /\ instance = TRUE
    /\ hamming_distance_func = BoundBitKernel
    /\ jaccard_distance_func = BoundBitKernel
    /\ BitHammingDistance = "null"
    /\ BitJaccardDistance = "null"
    /\ initialized_ = FALSE
    /\ has_f16c_support_ = FALSE
    /\ l2_squared_distance_func_ = "empty"
    /\ inner_product_func_ = "empty"
    /\ cosine_similarity_func_ = "empty"
    /\ l1_distance_func_ = "empty"
    /\ phase = "running"
    /\ pc = [t \in 1..NumThreads |-> "idle"]
    /\ sel = [t \in 1..NumThreads |-> "none"]
    /\ obs = [t \in 1..NumThreads |-> "none"]

KernelIdle ==
    /\ k_bytes = 0
    /\ k_a = <<>>
    /\ k_b = <<>>
    /\ k_seed = 0
    /\ k_call = NoCall

\* HalfType* ax: nullptr, or a pointer to an array of halves.
NullPtr == [null |-> TRUE, data |-> <<>>]
HalfArray(data) == [null |-> FALSE, data |-> data]

\* How a half-vector kernel call ended: it threw std::invalid_argument with
\* the message what, or returned ret[1]; reads is the number of elements of
\* each operand it had read by then.
NoHalfCall == [fn |-> "none", threw |-> "none", what |-> "", ret |-> <<>>, reads |-> 0]
Threw(what, reads) ==
    [threw |-> "std::invalid_argument", what |-> what, ret |-> <<>>, reads |-> reads]
Returned(v, reads) ==
    [threw |-> "none", what |-> "", ret |-> <<v>>, reads |-> reads]

HalfKernelIdle ==
    /\ v_dim = 0
    /\ v_ax = NullPtr
    /\ v_bx = NullPtr
    /\ v_call = NoHalfCall

\* No Vector has been constructed.
VectorIdle ==
    /\ vec_arg = 0
    /\ vec_obj = [made |-> FALSE, threw |-> "none", dim |-> 0]
    /\ vec_got = <<>>

\* Storage that holds no BitVec object.
NoObject == [alive |-> FALSE, data |-> 0]
NoBitVecCall == [op |-> "none", outcome |-> "none", dst |-> 0, src |-> 0, la |-> 0, lb |-> 0]

\* No BitVec exists and nothing has been allocated.
BitVecIdle ==
    /\ bv_heap = <<>>
    /\ bv_obj = [s \in 1..MaxObjs |-> NoObject]
    /\ bv_raw = {}
    /\ bv_fault = "none"
    /\ bv_call = NoBitVecCall

\* const HalfVector_p* that is null, and the result of a call not yet made.
NoHalfVec == [null |-> TRUE, dim |-> 0, x |-> <<>>]
NoHalfVecCall == [called |-> FALSE, threw |-> "none", ret |-> NoHalfVec, start |-> 0, end |-> 0]

HalfVecIdle ==
    /\ hv_a = NoHalfVec
    /\ hv_b = NoHalfVec
    /\ hv_c = NoHalfVecCall
    /\ hv_sub = NoHalfVecCall

TypesIdle == VectorIdle /\ BitVecIdle /\ HalfVecIdle

CodecIdle ==
    /\ c_mode = "none"
    /\ c_pc = 0
    /\ c_h0 = 0
    /\ c_f0 = [s |-> 0, e |-> 0, m |-> 0]
    /\ c_half = 0
    /\ c_float = [s |-> 0, e |-> 0, m |-> 0]

InitBits ==
    /\ AVX512F \in BOOLEAN
    /\ F16C_SUPPORT = FALSE
    /\ cpu_f16c = FALSE
    /\ cpu_avx512 = TRUE
    /\ DispatcherIdle
    /\ CodecIdle
    /\ HalfKernelIdle
    /\ TypesIdle
    /\ k_bytes \in ByteCounts
    /\ k_a \in Buffers(k_bytes)
    /\ k_b \in Buffers(k_bytes)
    /\ k_seed \in 0..MaxSeed
    /\ k_call = NoCall

KernelCall(c) ==
    /\ k_call = NoCall
    /\ k_call' = c
    /\ UNCHANGED <<k_bytes, k_a, k_b, k_seed>>
    /\ UNCHANGED <<buildVars, bitVars, halfVars, threadVars, codecVars,
                   halfKernelVars, typeVars>>

Call_hamming_distance_default ==
    KernelCall(Called("hamming_distance_default", 0, 0,
        hamming_distance_default(k_bytes, Ptr(k_a), Ptr(k_b), k_seed)))

Call_hamming_distance_avx512_popcount ==
    /\ AVX512F
    /\ KernelCall(Called("hamming_distance_avx512_popcount", 0, 0,
        hamming_distance_avx512_popcount(k_bytes, Ptr(k_a), Ptr(k_b), k_seed)))

Call_jaccard_distance_default ==
    \E aa \in 0..MaxNorm, bb \in 0..MaxNorm :
      /\ <<aa, bb>> \in Norms
      /\ KernelCall(Called("jaccard_distance_default", aa, bb,
            jaccard_distance_default(k_bytes, Ptr(k_a), Ptr(k_b), k_seed, aa, bb)))

Call_jaccard_distance_avx512_popcount ==
    /\ AVX512F
    /\ \E aa \in 0..MaxNorm, bb \in 0..MaxNorm :
      /\ <<aa, bb>> \in Norms
      /\ KernelCall(Called("jaccard_distance_avx512_popcount", aa, bb,
            jaccard_distance_avx512_popcount(k_bytes, Ptr(k_a), Ptr(k_b),
                                             k_seed, aa, bb)))

Call_BitUtils_hamming_distance ==
    KernelCall(Called("BitUtils::hamming_distance", 0, 0,
        BitUtils_hamming_distance(k_bytes, Ptr(k_a), Ptr(k_b), k_seed)))

Call_BitUtils_jaccard_distance ==
    \E aa \in 0..MaxNorm, bb \in 0..MaxNorm :
      /\ <<aa, bb>> \in Norms
      /\ KernelCall(Called("BitUtils::jaccard_distance", aa, bb,
            BitUtils_jaccard_distance(k_bytes, Ptr(k_a), Ptr(k_b), k_seed, aa, bb)))

NextBits ==
    \/ Call_hamming_distance_default
    \/ Call_hamming_distance_avx512_popcount
    \/ Call_jaccard_distance_default
    \/ Call_jaccard_distance_avx512_popcount
    \/ Call_BitUtils_hamming_distance
    \/ Call_BitUtils_jaccard_distance

SpecBits == InitBits /\ [][NextBits]_vars

-----------------------------------------------------------------------------
(* What the bit operations are specified to compute.                       *)

\* Bit k of byte x.
BitOf(x, k) == (x \div 2^k) % 2

\* The number of bit positions of the first n bytes at which P holds of
\* (bit of a, bit of b).
CountBits(n, a, b, P(_, _)) ==
    Cardinality({ik \in (1..n) \X (0..7) :
                    P(BitOf(a[ik[1]], ik[2]), BitOf(b[ik[1]], ik[2]))})

XorBit(x, y) == x # y
AndBit(x, y) == x = 1 /\ y = 1
OrBit(x, y) == x = 1 \/ y = 1

\* hammingDistance: seed plus the set bits of a XOR b.
HammingOf(n, a, b, seed) == seed + CountBits(n, a, b, XorBit)

\* jaccardDistance: 1 - andCount / orCount, 0.0 when orCount is 0.
JaccardOf(n, a, b, andSeed) ==
    LET andCount == andSeed + CountBits(n, a, b, AndBit)
        orCount == CountBits(n, a, b, OrBit)
    IN  IF orCount = 0 THEN DZero ELSE Frac(orCount - andCount, orCount)

HasSetBit(a) == \E i \in 1..Len(a) : a[i] # 0

-----------------------------------------------------------------------------
(* Claims about the bit kernels, under SpecBits.                           *)

\* C1 (as claimed): whatever the byte count, buffers and andSeed, the AVX-512
\* jaccardDistance returns exactly the value the scalar jaccardDistance
\* returns for the same arguments.
C1_JaccardAvx512EqualsScalar ==
    k_call.fn = "jaccard_distance_avx512_popcount" =>
        k_call.ret = jaccard_distance_default(k_bytes, Ptr(k_a), Ptr(k_b), k_seed,
                                              k_call.aa, k_call.bb)

\* C2: whatever the byte count, buffers and seed, the AVX-512 hammingDistance
\* (64-byte blocks, then the scalar remainder) returns exactly the count the
\* scalar hammingDistance (8-byte words, then bytes) returns.
C2_HammingAvx512EqualsScalar ==
    k_call.fn = "hamming_distance_avx512_popcount" =>
        k_call.ret = hamming_distance_default(k_bytes, Ptr(k_a), Ptr(k_b), k_seed)

\* C2's case: a call with full blocks and a remainder of more than a word,
\* on buffers that differ.
C2_Witness ==
    /\ k_call.fn = "hamming_distance_avx512_popcount"
    /\ k_bytes > BlockBytes
    /\ k_bytes % BlockBytes > WordBytes
    /\ k_call.ret > k_seed

\* C3: hammingDistance, scalar or as dispatched, returns exactly the seed plus
\* the number of set bits of a XOR b over the first byteCount bytes.
C3_HammingIsSeedPlusXorBits ==
    k_call.fn \in {"hamming_distance_default", "BitUtils::hamming_distance"} =>
        k_call.ret = HammingOf(k_bytes, k_a, k_b, k_seed)

\* C3's scenario: 16 bytes of 0xFF against 16 bytes of zero give 128.
C3_Witness ==
    /\ k_call.fn = "hamming_distance_default"
    /\ k_bytes = 16
    /\ k_a = [i \in 1..16 |-> 255]
    /\ k_b = [i \in 1..16 |-> 0]
    /\ k_seed = 0
    /\ k_call.ret = 128

\* C4: the scalar jaccardDistance returns 1 - andCount / orCount with
\* andCount = andSeed + popcount(a AND b) and orCount = popcount(a OR b),
\* exactly 0.0 when orCount is 0, whatever normA and normB are.
C4_JaccardIsOneMinusRatio ==
    k_call.fn = "jaccard_distance_default" =>
        k_call.ret = JaccardOf(k_bytes, k_a, k_b, k_seed)

\* C4's case: nonzero norms given, some bits set, a result strictly between
\* 0 and 1.
C4_Witness ==
    /\ k_call.fn = "jaccard_distance_default"
    /\ k_call.aa + k_call.bb > 0
    /\ k_bytes > WordBytes
    /\ k_call.ret.num > 0
    /\ k_call.ret.num < k_call.ret.den

\* C5 (as claimed): for a buffer a with a set bit, jaccardDistance(a, a, 0)
\* through the dispatched entry point returns exactly 0.0.
C5_JaccardOfSelfIsZero ==
    (/\ k_call.fn = "BitUtils::jaccard_distance"
     /\ k_a = k_b
     /\ k_seed = 0
     /\ HasSetBit(k_a)) =>
        k_call.ret = DZero

\* C6: with seed 0 hammingDistance, scalar and AVX-512, is symmetric in its
\* operands and zero on identical operands.
C6_HammingSymmetricZeroOnSelf ==
    /\ (k_call.fn = "hamming_distance_default" /\ k_seed = 0) =>
          /\ k_call.ret = hamming_distance_default(k_bytes, Ptr(k_b), Ptr(k_a), 0)
          /\ k_a = k_b => k_call.ret = 0
    /\ (k_call.fn = "hamming_distance_avx512_popcount" /\ k_seed = 0) =>
          /\ k_call.ret = hamming_distance_avx512_popcount(k_bytes, Ptr(k_b), Ptr(k_a), 0)
          /\ k_a = k_b => k_call.ret = 0

\* C6's case: the AVX-512 kernel on different buffers with blocks and a
\* remainder, seed 0, a nonzero distance.
C6_Witness ==
    /\ k_call.fn = "hamming_distance_avx512_popcount"
    /\ k_seed = 0
    /\ k_a # k_b
    /\ k_bytes > BlockBytes
    /\ k_bytes % BlockBytes # 0
    /\ k_call.ret > 0

\* The kernels and entry points that compute a Hamming distance.
HammingCalls ==
    {"hamming_distance_default", "hamming_distance_avx512_popcount",
     "BitUtils::hamming_distance"}

\* C18: with byteCount 0 the Hamming distance is the seed and the Jaccard
\* distance is 0.0, for every seed, in every kernel and through the
\* dispatcher; the operands are empty arrays, of which no byte can be read.
C18_ZeroByteCount ==
    (k_call.fn # "none" /\ k_bytes = 0) =>
        /\ k_a = <<>> /\ k_b = <<>>
        /\ IF k_call.fn \in HammingCalls
           THEN k_call.ret = k_seed
           ELSE k_call.ret = DZero

C18_Witness ==
    /\ k_bytes = 0
    /\ k_seed > 0
    /\ k_call.fn = "hamming_distance_default"
    /\ k_call.ret = k_seed

-----------------------------------------------------------------------------
(* The half-precision codec (halfutils.cpp:199-277).                       *)

\* A 32-bit float is its three bit fields: sign s, exponent field e (0..255)
\* and mantissa field m (0..2^23 - 1).  A half is its 16-bit pattern.
F32(s, e, m) == [s |-> s, e |-> e, m |-> m]

\* The position of the highest set bit of n > 0.
RECURSIVE Log2Floor(_)
Log2Floor(n) == IF n <= 1 THEN 0 ELSE 1 + Log2Floor(n \div 2)

\* The float whose value is n * 2^x, for 0 < n < 2^24 and a normal result:
\* such a product or quotient by a power of two is exact in single precision.
F32OfScaled(n, x) ==
    LET k == Log2Floor(n)
    IN  F32(0, 127 + k + x, (n - 2^k) * 2^(23 - k))

\* sign ? -result : result
Negated(sign, f) == IF sign # 0 THEN [f EXCEPT !.s = 1 - @] ELSE f

\* std::numeric_limits<float>::quiet_NaN(): 0x7fc00000
QuietNaN == F32(0, 255, 4194304)
\* std::numeric_limits<float>::infinity()
Infinity == F32(0, 255, 0)

\* float HalfDistanceCalculator<T>::half_to_float_manual(uint16_t h)
half_to_float_manual(h) ==
    LET sign == (h \div 2^15) % 2
        exponent == (h \div 2^10) % 32
        mantissa == h % 1024
    IN  IF exponent = 0
        THEN IF mantissa = 0
             THEN Negated(sign, F32(0, 0, 0))
             \* Subnormal: mantissa / 1024.0f
             ELSE Negated(sign, F32OfScaled(mantissa, -10))
        ELSE IF exponent = 31
        THEN IF mantissa = 0 THEN Negated(sign, Infinity) ELSE QuietNaN
        \* Normal: (1.0f + mantissa / 1024.0f) * std::pow(2.0f, exponent - 15)
        ELSE Negated(sign, F32OfScaled(1024 + mantissa, exponent - 15 - 10))

\* The value returned as uint16_t: the low 16 bits.
U16(x) == x % 65536

\* A plausible slip: the mantissa is truncated, never rounded.
float_to_half_manual_trunc(f) ==
    LET sign == f.s
        exponent == f.e
        mantissa == f.m
        new_exponent == exponent - 127 + 15
        new_mantissa == mantissa \div 2^13
    IN  IF exponent = 255
        THEN U16(BitOr(BitOr(sign * 2^15, 31744), IF mantissa # 0 THEN 1 ELSE 0))
        ELSE IF new_exponent >= 31 THEN U16(BitOr(sign * 2^15, 31744))
        ELSE IF new_exponent <= 0 THEN U16(sign * 2^15)
        ELSE U16(BitOr(BitOr(sign * 2^15, new_exponent * 2^10), new_mantissa))

\* A plausible slip: an underflowing float keeps its leading mantissa bits
\* and becomes a subnormal half instead of zero.
float_to_half_manual_denorm(f) ==
    LET sign == f.s
        exponent == f.e
        mantissa == f.m
        new_exponent == exponent - 127 + 15
        new_mantissa == mantissa \div 2^13
        round == BitAnd(mantissa, 4096) # 0
    IN  IF exponent = 255
        THEN U16(BitOr(BitOr(sign * 2^15, 31744), IF mantissa # 0 THEN 1 ELSE 0))
        ELSE IF new_exponent >= 31 THEN U16(BitOr(sign * 2^15, 31744))
        ELSE IF new_exponent <= 0 THEN U16(BitOr(sign * 2^15, new_mantissa))
        ELSE IF round /\ new_mantissa + 1 = 1024
        THEN IF new_exponent + 1 = 31
             THEN U16(BitOr(sign * 2^15, 31744))
             ELSE U16(BitOr(BitOr(sign * 2^15, (new_exponent + 1) * 2^10), 0))
        ELSE U16(BitOr(BitOr(sign * 2^15, new_exponent * 2^10),
                       IF round THEN new_mantissa + 1 ELSE new_mantissa))

\* uint16_t HalfDistanceCalculator<T>::float_to_half_manual(float f)
float_to_half_manual(f) ==
    LET sign == f.s
        exponent == f.e
        mantissa == f.m
        new_exponent == exponent - 127 + 15
        new_mantissa == mantissa \div 2^13
        round == BitAnd(mantissa, 4096) # 0
    IN  IF exponent = 255
        \* Infinity or NaN
        THEN U16(BitOr(BitOr(sign * 2^15, 31744), IF mantissa # 0 THEN 1 ELSE 0))
        ELSE IF new_exponent >= 31
        \* Overflow to infinity
        THEN U16(BitOr(sign * 2^15, 31744))
        ELSE IF new_exponent <= 0
        \* Underflow to zero
        THEN U16(sign * 2^15)
        ELSE IF round /\ new_mantissa + 1 = 1024
        \* Mantissa overflow
        THEN IF new_exponent + 1 = 31
             THEN U16(BitOr(sign * 2^15, 31744))
             ELSE U16(BitOr(BitOr(sign * 2^15, (new_exponent + 1) * 2^10), 0))
        ELSE U16(BitOr(BitOr(sign * 2^15, new_exponent * 2^10),
                       IF round THEN new_mantissa + 1 ELSE new_mantissa))

\* static constexpr float half_to_float(HalfType h), half = uint16_t
half_to_float(h) == half_to_float_manual(h)

\* static constexpr HalfType float_to_half(float f), half = uint16_t
float_to_half(f) == float_to_half_manual(f)

-----------------------------------------------------------------------------
(* SpecCodec: one round trip through the codec.                            *)

HalfPatterns == 0..65535

HiBits == (0..MaxHi) \cup ((1023 - MaxHi)..1023)
LoBits == {0, 1, 4095, 4096, 4097, 8191}
FloatInputs ==
    {F32(s, e, hi * 8192 + lo) : s \in {0, 1}, e \in 0..255, hi \in HiBits, lo \in LoBits}

InitCodec ==
    /\ AVX512F = FALSE
    /\ F16C_SUPPORT = FALSE
    /\ cpu_f16c = FALSE
    /\ cpu_avx512 = FALSE
    /\ DispatcherIdle
    /\ KernelIdle
    /\ HalfKernelIdle
    /\ TypesIdle
    /\ c_pc = 0
    /\ \/ /\ c_mode = "half"
          /\ c_h0 \in HalfPatterns
          /\ c_half = c_h0
          /\ c_f0 = F32(0, 0, 0)
          /\ c_float = F32(0, 0, 0)
       \/ /\ c_mode = "float"
          /\ c_f0 \in FloatInputs
          /\ c_float = c_f0
          /\ c_h0 = 0
          /\ c_half = 0

\* f = half_to_float(h)
Apply_half_to_float ==
    /\ \/ c_mode = "half" /\ c_pc = 0
       \/ c_mode = "float" /\ c_pc = 1
    /\ c_float' = half_to_float(c_half)
    /\ c_pc' = c_pc + 1
    /\ UNCHANGED <<c_mode, c_h0, c_f0, c_half>>
    /\ UNCHANGED <<buildVars, bitVars, halfVars, threadVars, kernelVars,
                   halfKernelVars, typeVars>>

\* h = float_to_half(f)
Apply_float_to_half ==
    /\ \/ c_mode = "float" /\ c_pc = 0
       \/ c_mode = "half" /\ c_pc = 1
    /\ c_half' = float_to_half(c_float)
    /\ c_pc' = c_pc + 1
    /\ UNCHANGED <<c_mode, c_h0, c_f0, c_float>>
    /\ UNCHANGED <<buildVars, bitVars, halfVars, threadVars, kernelVars,
                   halfKernelVars, typeVars>>

NextCodec == Apply_half_to_float \/ Apply_float_to_half

SpecCodec == InitCodec /\ [][NextCodec]_vars

-----------------------------------------------------------------------------
(* The values of floats, as exact dyadic numbers n * 2^x.                  *)

IsFinite(f) == f.e # 255
\* |f| = Sig(f) * 2^Exp2(f), f finite
Sig(f) == IF f.e = 0 THEN f.m ELSE 8388608 + f.m
Exp2(f) == IF f.e = 0 THEN -149 ELSE f.e - 150

\* n1 * 2^x1 <= n2 * 2^x2, for naturals below 2^25
DyadicLeq(n1, x1, n2, x2) ==
    IF n1 = 0 THEN TRUE
    ELSE IF n2 = 0 THEN FALSE
    ELSE LET k1 == Log2Floor(n1) + x1
             k2 == Log2Floor(n2) + x2
             lo == IF x1 < x2 THEN x1 ELSE x2
         IN  IF k1 # k2 THEN k1 < k2
             ELSE n1 * 2^(x1 - lo) <= n2 * 2^(x2 - lo)

\* | n1 * 2^x1 - n2 * 2^x2 | as <<n, x>>, the two within a factor of four of
\* each other or one of them zero
DyadicAbsDiff(n1, x1, n2, x2) ==
    IF n1 = 0 THEN <<n2, x2>>
    ELSE IF n2 = 0 THEN <<n1, x1>>
    ELSE LET lo == IF x1 < x2 THEN x1 ELSE x2
         IN  <<Abs(n1 * 2^(x1 - lo) - n2 * 2^(x2 - lo)), lo>>

\* |f| <= 65504, the largest finite half (HALF_MAX)
InHalfRange(f) == IsFinite(f) /\ DyadicLeq(Sig(f), Exp2(f), 65504, 0)

\* The exponent of one unit in the last place of half precision at f's
\* magnitude: 2^(E - 10) for 2^E <= |f| < 2^(E+1), E >= -14, and 2^-24 in the
\* subnormal range below 2^-14.
HalfUlpExp(f) ==
    LET E == Log2Floor(Sig(f)) + Exp2(f)
    IN  IF f.e = 0 \/ E < -14 THEN -24 ELSE E - 10

\* g is finite, has f's sign or is zero, and |g - f| <= one half ulp at f
WithinOneHalfUlp(g, f) ==
    /\ IsFinite(g)
    /\ g.s = f.s \/ Sig(g) = 0 \/ Sig(f) = 0
    /\ LET d == DyadicAbsDiff(Sig(g), Exp2(g), Sig(f), Exp2(f))
       IN  DyadicLeq(d[1], d[2], 1, HalfUlpExp(f))

-----------------------------------------------------------------------------
(* Claims about the codec, under SpecCodec.                                *)

\* C7 (as claimed): for every 16-bit half pattern h, subnormals, infinities
\* and NaNs included, floatToHalf(halfToFloat(h)) = h.
C7_HalfRoundTrip ==
    (c_mode = "half" /\ c_pc = 2) => c_half = c_h0

\* C8 (as claimed): for every finite float f with |f| <= 65504, values below
\* the smallest normal half included, halfToFloat(floatToHalf(f)) is within
\* one unit in the last place of half precision at f's magnitude of f.
C8_FloatRoundTripWithinUlp ==
    (c_mode = "float" /\ c_pc = 2 /\ InHalfRange(c_f0)) =>
        WithinOneHalfUlp(c_float, c_f0)

-----------------------------------------------------------------------------
(* Single-precision arithmetic, as the kernels of halfutils.cpp use it: the *)
(* operators +, -, * and std::sqrt, std::abs on float, each rounded to the  *)
(* nearest float, ties to even (IEEE 754 binary32, the x86-64 SSE default). *)
(* The operands are finite and the results normal or zero: sums of up to    *)
(* 16000 products of finite halves stay between 2^-48 and 2^47.             *)

\* f is +0.0f or -0.0f
IsZeroF(f) == f.e = 0 /\ f.m = 0

\* |x| <= |y|, x and y finite
MagLeq(x, y) == x.e < y.e \/ (x.e = y.e /\ x.m <= y.m)

\* The position of the highest set bit of n, 0 < n < 2^30.
Msb(n) ==
    IF n < 8388608 THEN Log2Floor(n)
    ELSE IF n < 16777216 THEN 23
    ELSE IF n < 33554432 THEN 24
    ELSE IF n < 67108864 THEN 25
    ELSE IF n < 134217728 THEN 26
    ELSE IF n < 268435456 THEN 27
    ELSE IF n < 536870912 THEN 28
    ELSE 29

\* The float nearest to n * 2^x, ties to even, for 0 < n < 2^30.  The lowest
\* bit of n may stand for discarded lower bits (a sticky bit) when n >= 2^25.
RoundToF32(n, x) ==
    LET sh == Msb(n) - 23
        q == n \div 2^sh
        r == n % 2^sh
        half == 2^(sh - 1)
        up == r > half \/ (r = half /\ q % 2 = 1)
    IN  IF sh < 0 THEN F32OfScaled(n, x)
        ELSE IF sh = 0 THEN F32(0, 150 + x, n - 8388608)
        ELSE IF ~up THEN F32(0, 150 + x + sh, q - 8388608)
        ELSE IF q + 1 = 16777216 THEN F32(0, 151 + x + sh, 0)
        ELSE F32(0, 150 + x + sh, q + 1 - 8388608)

\* n with its lowest bit set when bits were discarded below it
Jam(n, discarded) == IF discarded THEN (n \div 2) * 2 + 1 ELSE n

\* float operator+(float, float): the smaller operand is aligned to the
\* larger with three extra bits (guard, round, sticky).
FAdd(x, y) ==
    IF IsZeroF(x) /\ IsZeroF(y) THEN F32(IF x.s = 1 /\ y.s = 1 THEN 1 ELSE 0, 0, 0)
    ELSE IF IsZeroF(x) THEN y
    ELSE IF IsZeroF(y) THEN x
    ELSE LET big == IF MagLeq(x, y) THEN y ELSE x
             small == IF MagLeq(x, y) THEN x ELSE y
             d == Exp2(big) - Exp2(small)
             X == Sig(big) * 8
             t == Sig(small) * 8
             Y == IF d >= 27 THEN 1 ELSE Jam(t \div 2^d, t % 2^d # 0)
             ex == Exp2(big) - 3
         IN  IF x.s = y.s THEN Negated(big.s, RoundToF32(X + Y, ex))
             ELSE IF X = Y THEN F32(0, 0, 0)
             ELSE Negated(big.s, RoundToF32(X - Y, ex))

\* float operator-() and float operator-(float, float)
FNeg(x) == [x EXCEPT !.s = 1 - @]
FSub(x, y) == FAdd(x, FNeg(y))

\* std::abs(float), and _mm256_and_ps with 0x7fffffff
FAbs(x) == [x EXCEPT !.s = 0]

\* a * b = p[1] * 2^24 + p[2], for naturals a, b < 2^25
WideMul(a, b) ==
    LET a1 == a \div 4096
        a0 == a % 4096
        b1 == b \div 4096
        b0 == b % 4096
        mid == a1 * b0 + a0 * b1
        lo == (mid % 4096) * 4096 + a0 * b0
    IN  <<a1 * b1 + mid \div 4096 + lo \div 16777216, lo % 16777216>>

\* float operator*(float, float)
FMul(x, y) ==
    IF IsZeroF(x) \/ IsZeroF(y) THEN F32((x.s + y.s) % 2, 0, 0)
    ELSE LET p == WideMul(Sig(x), Sig(y))
             n == Jam(p[1] * 8 + p[2] \div 2097152, p[2] % 2097152 # 0)
         IN  Negated((x.s + y.s) % 2, RoundToF32(n, Exp2(x) + Exp2(y) + 21))

\* The largest r with r * r <= h * 2^24, found bit by bit from bit i down.
RECURSIVE SqrtBits(_, _, _)
SqrtBits(h, r, i) ==
    IF i < 0 \/ r < 0 THEN r
    ELSE LET c == r + 2^i
             p == WideMul(c, c)
         IN  SqrtBits(h, IF p[1] < h \/ (p[1] = h /\ p[2] = 0) THEN c ELSE r, i - 1)

\* float std::sqrt(float), x >= 0: the root to 25 bits and a sticky bit.
FSqrt(x) ==
    IF IsZeroF(x) THEN x
    ELSE LET odd == Exp2(x) % 2 = 1
             sx == IF odd THEN Sig(x) ELSE 2 * Sig(x)
             ex == IF odd THEN Exp2(x) ELSE Exp2(x) - 1
             r == SqrtBits(2 * sx, 0, 24)
             p == WideMul(r, r)
         IN  RoundToF32(Jam(2 * r, ~(p[1] = 2 * sx /\ p[2] = 0)), (ex - 25) \div 2 - 1)

-----------------------------------------------------------------------------
(* The half-vector kernels (halfutils.cpp:112-197 and 279-470), in the      *)
(* build where half is uint16_t.  Each float statement is one rounded       *)
(* operation, in the order the source writes them (no fused multiply-add).  *)

\* constexpr std::size_t HALFVEC_MAX_DIM
HALFVEC_MAX_DIM == 16000

\* The number of halves one __m128i load converts: for (; i + 8 <= dim; i += 8)
F16CLanes == 8

\* A plausible slip: dim < 0 tested instead of dim <= 0.
validate_dimensions_nonneg(dim) ==
    IF dim < 0 THEN "Dimensions must be positive"
    ELSE IF dim > HALFVEC_MAX_DIM THEN "Dimensions exceed maximum allowed"
    ELSE "ok"

\* static void validate_dimensions(int dim): the message thrown, or "ok".
validate_dimensions(dim) ==
    IF dim <= 0 THEN "Dimensions must be positive"
    ELSE IF dim > HALFVEC_MAX_DIM THEN "Dimensions exceed maximum allowed"
    ELSE "ok"

\* ax[i]
Elem(p, i) == p.data[i + 1]

\* The loop index i and the float accumulators of a kernel.
HRegs(i, x, y, z) == [i |-> i, x |-> x, y |-> y, z |-> z]

PlusZero == F32(0, 0, 0)

MinOf(a, b) == IF a < b THEN a ELSE b

\* for (; i < stop; ) r = Body(r), the iterations in the order of the loop.
\* The loop is evaluated in nested segments of w iterations, which changes
\* nothing of what is computed and keeps the evaluation's nesting shallow
\* for dim up to HALFVEC_MAX_DIM.
RECURSIVE ForLoop(_, _, _, _)
ForLoop(Body(_), w, stop, r) ==
    IF r.i >= stop THEN r
    ELSE IF w = 1 THEN ForLoop(Body, 1, stop, Body(r))
    ELSE ForLoop(Body, w, stop,
                 ForLoop(Body, w \div 32, MinOf(r.i + w, stop), r))

\* float diff = a - b; distance += diff * diff;
l2_default_body(ax, bx, r) ==
    LET a == half_to_float(Elem(ax, r.i))
        b == half_to_float(Elem(bx, r.i))
        diff == FSub(a, b)
    IN  HRegs(r.i + 1, FAdd(r.x, FMul(diff, diff)), r.y, r.z)

\* result += a * b;
ip_default_body(ax, bx, r) ==
    LET a == half_to_float(Elem(ax, r.i))
        b == half_to_float(Elem(bx, r.i))
    IN  HRegs(r.i + 1, FAdd(r.x, FMul(a, b)), r.y, r.z)

\* dot_product += a * b; norm_a += a * a; norm_b += b * b;
cosine_default_body(ax, bx, r) ==
    LET a == half_to_float(Elem(ax, r.i))
        b == half_to_float(Elem(bx, r.i))
    IN  HRegs(r.i + 1, FAdd(r.x, FMul(a, b)), FAdd(r.y, FMul(a, a)),
              FAdd(r.z, FMul(b, b)))

\* distance += std::abs(a - b);
l1_default_body(ax, bx, r) ==
    LET a == half_to_float(Elem(ax, r.i))
        b == half_to_float(Elem(bx, r.i))
    IN  HRegs(r.i + 1, FAdd(r.x, FAbs(FSub(a, b))), r.y, r.z)

\* validate_dimensions(dim); if (ax == nullptr || bx == nullptr) throw ...:
\* the message of the std::invalid_argument thrown, or "ok".
ArgumentCheck(dim, ax, bx) ==
    IF validate_dimensions(dim) # "ok" THEN validate_dimensions(dim)
    ELSE IF ax.null \/ bx.null THEN "Input arrays cannot be null"
    ELSE "ok"

\* static_cast<double>(dot_product) / (std::sqrt(norm_a) * std::sqrt(norm_b)):
\* the double quotient of two floats, kept as its numerator and denominator.
\* Both are exact in double and the division is correctly rounded, so the
\* quotient is 1.0 exactly when num = den, and is 0 or NaN only when num or
\* den is zero.
DoubleQuot(num, den) == [num |-> num, den |-> den]

\* A plausible slip: && written for ||.
cosine_finish_both(r) ==
    IF IsZeroF(r.y) /\ IsZeroF(r.z)
    THEN Threw("Cannot compute cosine similarity of zero vectors", r.i)
    ELSE Returned(DoubleQuot(r.x, FMul(FSqrt(r.y), FSqrt(r.z))), r.i)

\* if (norm_a == 0.0f || norm_b == 0.0f) throw ...; return dot / (sqrt * sqrt);
cosine_finish(r) ==
    IF IsZeroF(r.y) \/ IsZeroF(r.z)
    THEN Threw("Cannot compute cosine similarity of zero vectors", r.i)
    ELSE Returned(DoubleQuot(r.x, FMul(FSqrt(r.y), FSqrt(r.z))), r.i)

\* The registers at loop entry: i = 0 and every accumulator 0.0f.
LoopEntry == HRegs(0, PlusZero, PlusZero, PlusZero)

\* for (int i = 0; i < dim; i++) Body
ForEach(Body(_), stop, r) == ForLoop(Body, 1024, stop, r)

\* float l2_squared_distance_default(int dim, HalfType* ax, HalfType* bx)
l2_squared_distance_default(dim, ax, bx) ==
    IF ArgumentCheck(dim, ax, bx) # "ok" THEN Threw(ArgumentCheck(dim, ax, bx), 0)
    ELSE LET r == ForEach(LAMBDA q : l2_default_body(ax, bx, q), dim, LoopEntry)
         IN  Returned(r.x, r.i)

\* float inner_product_default(int dim, HalfType* ax, HalfType* bx)
inner_product_default(dim, ax, bx) ==
    IF ArgumentCheck(dim, ax, bx) # "ok" THEN Threw(ArgumentCheck(dim, ax, bx), 0)
    ELSE LET r == ForEach(LAMBDA q : ip_default_body(ax, bx, q), dim, LoopEntry)
         IN  Returned(r.x, r.i)

\* double cosine_similarity_default(int dim, HalfType* ax, HalfType* bx)
cosine_similarity_default(dim, ax, bx) ==
    IF ArgumentCheck(dim, ax, bx) # "ok" THEN Threw(ArgumentCheck(dim, ax, bx), 0)
    ELSE cosine_finish(ForEach(LAMBDA q : cosine_default_body(ax, bx, q), dim, LoopEntry))

\* float l1_distance_default(int dim, HalfType* ax, HalfType* bx)
l1_distance_default(dim, ax, bx) ==
    IF ArgumentCheck(dim, ax, bx) # "ok" THEN Threw(ArgumentCheck(dim, ax, bx), 0)
    ELSE LET r == ForEach(LAMBDA q : l1_default_body(ax, bx, q), dim, LoopEntry)
         IN  Returned(r.x, r.i)

\* One lane of _mm256_cvtph_ps: the IEEE 754 conversion of a half, whose
\* subnormals are mantissa * 2^-24.
mm256_cvtph_ps(h) ==
    LET sign == (h \div 2^15) % 2
        exponent == (h \div 2^10) % 32
        mantissa == h % 1024
    IN  IF exponent = 0
        THEN IF mantissa = 0 THEN F32(sign, 0, 0)
             ELSE Negated(sign, F32OfScaled(mantissa, -24))
        ELSE IF exponent = 31
        THEN IF mantissa = 0 THEN Negated(sign, Infinity)
             ELSE F32(sign, 255, 4194304 + mantissa * 8192)
        ELSE Negated(sign, F32OfScaled(1024 + mantissa, exponent - 25))

\* _mm256_cvtph_ps(_mm_loadu_si128((__m128i*)(ax + i))): lanes 0..7
LoadLanes(p, i) == [k \in 0..(F16CLanes - 1) |-> mm256_cvtph_ps(Elem(p, i + k))]

\* low = lanes 0..3, high = lanes 4..7; sum = low + high; two _mm_hadd_ps;
\* _mm_cvtss_f32: ((v0 + v4) + (v1 + v5)) + ((v2 + v6) + (v3 + v7)).
HorizontalSum(v) ==
    FAdd(FAdd(FAdd(v[0], v[4]), FAdd(v[1], v[5])),
         FAdd(FAdd(v[2], v[6]), FAdd(v[3], v[7])))

\* One pass of the 8-lane loop of l2_squared_distance_f16c.
l2_f16c_block(ax, bx, r) ==
    LET a == LoadLanes(ax, r.i)
        b == LoadLanes(bx, r.i)
        diff == [k \in DOMAIN a |-> FSub(a[k], b[k])]
        squared == [k \in DOMAIN a |-> FMul(diff[k], diff[k])]
    IN  HRegs(r.i + F16CLanes, FAdd(r.x, HorizontalSum(squared)), r.y, r.z)

\* One pass of the 8-lane loop of inner_product_f16c.
ip_f16c_block(ax, bx, r) ==
    LET a == LoadLanes(ax, r.i)
        b == LoadLanes(bx, r.i)
        product == [k \in DOMAIN a |-> FMul(a[k], b[k])]
    IN  HRegs(r.i + F16CLanes, FAdd(r.x, HorizontalSum(product)), r.y, r.z)

\* One pass of the 8-lane loop of cosine_similarity_f16c.
cosine_f16c_block(ax, bx, r) ==
    LET a == LoadLanes(ax, r.i)
        b == LoadLanes(bx, r.i)
        dot == [k \in DOMAIN a |-> FMul(a[k], b[k])]
        norm_a_sq == [k \in DOMAIN a |-> FMul(a[k], a[k])]
        norm_b_sq == [k \in DOMAIN a |-> FMul(b[k], b[k])]
    IN  HRegs(r.i + F16CLanes, FAdd(r.x, HorizontalSum(dot)),
              FAdd(r.y, HorizontalSum(norm_a_sq)), FAdd(r.z, HorizontalSum(norm_b_sq)))

\* One pass of the 8-lane loop of l1_distance_f16c.
l1_f16c_block(ax, bx, r) ==
    LET a == LoadLanes(ax, r.i)
        b == LoadLanes(bx, r.i)
        abs_diff == [k \in DOMAIN a |-> FAbs(FSub(a[k], b[k]))]
    IN  HRegs(r.i + F16CLanes, FAdd(r.x, HorizontalSum(abs_diff)), r.y, r.z)

\* for (; i + 8 <= dim; i += 8) Block
ForEachBlock(Block(_), dim, r) == ForLoop(Block, 1024, dim - F16CLanes + 1, r)

\* float l2_squared_distance_f16c(int dim, HalfType* ax, HalfType* bx)
l2_squared_distance_f16c(dim, ax, bx) ==
    IF ArgumentCheck(dim, ax, bx) # "ok" THEN Threw(ArgumentCheck(dim, ax, bx), 0)
    ELSE LET blocks == ForEachBlock(LAMBDA q : l2_f16c_block(ax, bx, q), dim, LoopEntry)
             r == ForEach(LAMBDA q : l2_default_body(ax, bx, q), dim, blocks)
         IN  Returned(r.x, r.i)

\* float inner_product_f16c(int dim, HalfType* ax, HalfType* bx)
inner_product_f16c(dim, ax, bx) ==
    IF ArgumentCheck(dim, ax, bx) # "ok" THEN Threw(ArgumentCheck(dim, ax, bx), 0)
    ELSE LET blocks == ForEachBlock(LAMBDA q : ip_f16c_block(ax, bx, q), dim, LoopEntry)
             r == ForEach(LAMBDA q : ip_default_body(ax, bx, q), dim, blocks)
         IN  Returned(r.x, r.i)

\* double cosine_similarity_f16c(int dim, HalfType* ax, HalfType* bx)
cosine_similarity_f16c(dim, ax, bx) ==
    IF ArgumentCheck(dim, ax, bx) # "ok" THEN Threw(ArgumentCheck(dim, ax, bx), 0)
    ELSE LET blocks == ForEachBlock(LAMBDA q : cosine_f16c_block(ax, bx, q), dim, LoopEntry)
         IN  cosine_finish(ForEach(LAMBDA q : cosine_default_body(ax, bx, q), dim, blocks))

\* float l1_distance_f16c(int dim, HalfType* ax, HalfType* bx)
l1_distance_f16c(dim, ax, bx) ==
    IF ArgumentCheck(dim, ax, bx) # "ok" THEN Threw(ArgumentCheck(dim, ax, bx), 0)
    ELSE LET blocks == ForEachBlock(LAMBDA q : l1_f16c_block(ax, bx, q), dim, LoopEntry)
             r == ForEach(LAMBDA q : l1_default_body(ax, bx, q), dim, blocks)
         IN  Returned(r.x, r.i)

-----------------------------------------------------------------------------
(* SpecHalf: one call of a half-vector kernel on caller-owned arrays, in a  *)
(* build with F16C_SUPPORT on a machine that has F16C, where all eight      *)
(* kernels exist and run.                                                   *)

\* The halves the arrays are made of: +0, -0, 1, 2, 3, the subnormal 2^-24,
\* -1 and 65504.
HalfElems == <<0, 32768, 15360, 16384, 16896, 1, 48128, 31743>>

\* An array of n halves: HalfElems from index shape[1] on, stepping by
\* shape[2] within a window of shape[3] elements.
Vec(n, shape) ==
    [i \in 1..n |-> HalfElems[shape[1] + (((i - 1) * shape[2]) % shape[3]) + 1]]

\* all +0; all -0; +0 and -0 in turn; 1, 2, 3, 1, ...; all 1; all 2^-24;
\* 2^-24, -1, 65504 in turn; every element in turn.
VecShapes ==
    {<<0, 0, 1>>, <<1, 0, 1>>, <<0, 1, 2>>, <<2, 1, 3>>, <<2, 0, 1>>, <<5, 0, 1>>,
     <<5, 1, 3>>, <<0, 1, 8>>}

Operands(n) == {NullPtr} \cup {HalfArray(Vec(n, shape)) : shape \in VecShapes}

SmallDims ==
    {-1} \cup {F16CLanes * blocks + tail :
                 blocks \in 0..MaxHalfBlocks, tail \in 0..MaxHalfTail}

\* The largest dimension accepted and the first one refused.
BoundaryDims == {HALFVEC_MAX_DIM, HALFVEC_MAX_DIM + 1}

InitHalf ==
    /\ AVX512F = FALSE
    /\ F16C_SUPPORT = TRUE
    /\ cpu_f16c = TRUE
    /\ cpu_avx512 = FALSE
    /\ DispatcherIdle
    /\ KernelIdle
    /\ CodecIdle
    /\ TypesIdle
    /\ \/ /\ v_dim \in SmallDims
          /\ v_ax \in Operands(v_dim)
          /\ v_bx \in Operands(v_dim)
       \/ /\ v_dim \in BoundaryDims
          /\ v_ax = HalfArray(Vec(v_dim, <<2, 0, 1>>))
          /\ v_bx = v_ax
    /\ v_call = NoHalfCall

\* The call of kernel fn ended as r.
Ended(fn, r) ==
    [fn |-> fn, threw |-> r.threw, what |-> r.what, ret |-> r.ret, reads |-> r.reads]

HalfCall(fn, r) ==
    /\ v_call = NoHalfCall
    /\ v_call' = Ended(fn, r)
    /\ UNCHANGED <<v_dim, v_ax, v_bx>>
    /\ UNCHANGED <<buildVars, bitVars, halfVars, threadVars, kernelVars, codecVars,
                   typeVars>>

Call_l2_squared_distance_default ==
    HalfCall("l2_squared_distance_default", l2_squared_distance_default(v_dim, v_ax, v_bx))

Call_inner_product_default ==
    HalfCall("inner_product_default", inner_product_default(v_dim, v_ax, v_bx))

Call_cosine_similarity_default ==
    HalfCall("cosine_similarity_default", cosine_similarity_default(v_dim, v_ax, v_bx))

Call_l1_distance_default ==
    HalfCall("l1_distance_default", l1_distance_default(v_dim, v_ax, v_bx))

Call_l2_squared_distance_f16c ==
    /\ F16C_SUPPORT
    /\ HalfCall("l2_squared_distance_f16c", l2_squared_distance_f16c(v_dim, v_ax, v_bx))

Call_inner_product_f16c ==
    /\ F16C_SUPPORT
    /\ HalfCall("inner_product_f16c", inner_product_f16c(v_dim, v_ax, v_bx))

Call_cosine_similarity_f16c ==
    /\ F16C_SUPPORT
    /\ HalfCall("cosine_similarity_f16c", cosine_similarity_f16c(v_dim, v_ax, v_bx))

Call_l1_distance_f16c ==
    /\ F16C_SUPPORT
    /\ HalfCall("l1_distance_f16c", l1_distance_f16c(v_dim, v_ax, v_bx))

NextHalf ==
    \/ Call_l2_squared_distance_default
    \/ Call_inner_product_default
    \/ Call_cosine_similarity_default
    \/ Call_l1_distance_default
    \/ Call_l2_squared_distance_f16c
    \/ Call_inner_product_f16c
    \/ Call_cosine_similarity_f16c
    \/ Call_l1_distance_f16c

SpecHalf == InitHalf /\ [][NextHalf]_vars

-----------------------------------------------------------------------------
(* Spec: the dispatchers, statement by statement, for several threads.     *)
(* Nothing in bitutils.cpp or halfutils.cpp takes a lock or uses an atomic: *)
(* every read and write below is a step of its own.                        *)

Threads == 1..NumThreads

HalfOps == {"l2_squared_distance", "inner_product", "cosine_similarity", "l1_distance"}
BitOps == {"hamming_distance", "jaccard_distance"}

Init ==
    /\ AVX512F \in BOOLEAN
    /\ F16C_SUPPORT \in BOOLEAN
    /\ cpu_f16c \in BOOLEAN
    /\ cpu_avx512 \in BOOLEAN
    /\ instance = FALSE
    /\ hamming_distance_func = "empty"
    /\ jaccard_distance_func = "empty"
    /\ BitHammingDistance = "null"
    /\ BitJaccardDistance = "null"
    /\ initialized_ = FALSE
    /\ has_f16c_support_ = FALSE
    /\ l2_squared_distance_func_ = "empty"
    /\ inner_product_func_ = "empty"
    /\ cosine_similarity_func_ = "empty"
    /\ l1_distance_func_ = "empty"
    /\ phase = "static_init"
    /\ pc = [t \in Threads |-> "idle"]
    /\ sel = [t \in Threads |-> "none"]
    /\ obs = [t \in Threads |-> "none"]
    /\ KernelIdle
    /\ CodecIdle
    /\ HalfKernelIdle
    /\ TypesIdle

Goto(t, at) == pc' = [pc EXCEPT ![t] = at]
Idle(t) == phase = "running" /\ pc[t] = "idle"
Fixed == UNCHANGED <<buildVars, kernelVars, codecVars, halfKernelVars, typeVars>>

\* BitUtils& BitUtils::get_instance(): constructs the singleton, whose
\* constructor runs initialize(), when instance is null.
get_instance_effect ==
    IF ~instance
    THEN /\ instance' = TRUE
         /\ hamming_distance_func' = BoundBitKernel
         /\ jaccard_distance_func' = BoundBitKernel
    ELSE UNCHANGED <<instance, hamming_distance_func, jaccard_distance_func>>

\* The global bit_utils_initializer, constructed before main starts threads.
BitUtilsInitializer ==
    /\ phase = "static_init"
    /\ get_instance_effect
    /\ phase' = "running"
    /\ UNCHANGED <<BitHammingDistance, BitJaccardDistance, halfVars, pc, sel, obs>>
    /\ Fixed

\* BitUtils::get_instance() called by a thread.
BitUtils_get_instance(t) ==
    /\ Idle(t)
    /\ get_instance_effect
    /\ UNCHANGED <<BitHammingDistance, BitJaccardDistance, halfVars, threadVars>>
    /\ Fixed

\* The public BitUtils::initialize(), called on the instance by a thread:
\* bitutils.cpp:197, 198, then 203, 204 when AVX-512 is supported.
BitUtils_initialize_enter(t) ==
    /\ Idle(t)
    /\ instance
    /\ Goto(t, "bit_197")
    /\ UNCHANGED <<bitVars, halfVars, phase, sel, obs>>
    /\ Fixed

BitUtils_initialize_197(t) ==
    /\ pc[t] = "bit_197"
    /\ hamming_distance_func' = "default"
    /\ Goto(t, "bit_198")
    /\ UNCHANGED <<instance, jaccard_distance_func, BitHammingDistance,
                   BitJaccardDistance, halfVars, phase, sel, obs>>
    /\ Fixed

BitUtils_initialize_198(t) ==
    /\ pc[t] = "bit_198"
    /\ jaccard_distance_func' = "default"
    /\ Goto(t, IF supports_avx512_popcount THEN "bit_203" ELSE "idle")
    /\ UNCHANGED <<instance, hamming_distance_func, BitHammingDistance,
                   BitJaccardDistance, halfVars, phase, sel, obs>>
    /\ Fixed

BitUtils_initialize_203(t) ==
    /\ pc[t] = "bit_203"
    /\ hamming_distance_func' = "avx512"
    /\ Goto(t, "bit_204")
    /\ UNCHANGED <<instance, jaccard_distance_func, BitHammingDistance,
                   BitJaccardDistance, halfVars, phase, sel, obs>>
    /\ Fixed

BitUtils_initialize_204(t) ==
    /\ pc[t] = "bit_204"
    /\ jaccard_distance_func' = "avx512"
    /\ Goto(t, "idle")
    /\ UNCHANGED <<instance, hamming_distance_func, BitHammingDistance,
                   BitJaccardDistance, halfVars, phase, sel, obs>>
    /\ Fixed

\* void BitvecInit(void): get_instance(), then bitutils.cpp:260 and 261.
BitvecInit_enter(t) ==
    /\ Idle(t)
    /\ get_instance_effect
    /\ Goto(t, "bitvec_260")
    /\ UNCHANGED <<BitHammingDistance, BitJaccardDistance, halfVars, phase, sel, obs>>
    /\ Fixed

BitvecInit_260(t) ==
    /\ pc[t] = "bitvec_260"
    /\ BitHammingDistance' = "c_hamming_distance_wrapper"
    /\ Goto(t, "bitvec_261")
    /\ UNCHANGED <<instance, hamming_distance_func, jaccard_distance_func,
                   BitJaccardDistance, halfVars, phase, sel, obs>>
    /\ Fixed

BitvecInit_261(t) ==
    /\ pc[t] = "bitvec_261"
    /\ BitJaccardDistance' = "c_jaccard_distance_wrapper"
    /\ Goto(t, "idle")
    /\ UNCHANGED <<instance, hamming_distance_func, jaccard_distance_func,
                   BitHammingDistance, halfVars, phase, sel, obs>>
    /\ Fixed

\* void HalfDistanceCalculator<T>::initialize(), halfutils.cpp:86: the read
\* of initialized_.
initialize_86(t) ==
    /\ Idle(t)
    /\ Goto(t, IF initialized_ THEN "idle" ELSE "half_63")
    /\ UNCHANGED <<bitVars, halfVars, phase, sel, obs>>
    /\ Fixed

\* void HalfvecInit(): DefaultHalfCalculator::initialize().
HalfvecInit(t) == initialize_86(t)

\* detect_cpu_features(), halfutils.cpp:63 (or 79 in a build without
\* F16C_SUPPORT): has_f16c_support_ = false.
detect_cpu_features_63(t) ==
    /\ pc[t] = "half_63"
    /\ has_f16c_support_' = FALSE
    /\ Goto(t, IF F16C_SUPPORT THEN "half_67" ELSE "half_94")
    /\ UNCHANGED <<bitVars, initialized_, l2_squared_distance_func_,
                   inner_product_func_, cosine_similarity_func_,
                   l1_distance_func_, phase, sel, obs>>
    /\ Fixed

\* detect_cpu_features(), halfutils.cpp:67-69: the flag set from cpuid.
detect_cpu_features_67(t) ==
    /\ pc[t] = "half_67"
    /\ has_f16c_support_' = cpu_f16c
    /\ Goto(t, "half_94")
    /\ UNCHANGED <<bitVars, initialized_, l2_squared_distance_func_,
                   inner_product_func_, cosine_similarity_func_,
                   l1_distance_func_, phase, sel, obs>>
    /\ Fixed

\* halfutils.cpp:94: the read of has_f16c_support_ that picks the branch.
initialize_94(t) ==
    /\ pc[t] = "half_94"
    /\ sel' = [sel EXCEPT ![t] =
                 IF F16C_SUPPORT /\ has_f16c_support_ THEN "f16c" ELSE "default"]
    /\ Goto(t, "half_l2")
    /\ UNCHANGED <<bitVars, halfVars, phase, obs>>
    /\ Fixed

\* halfutils.cpp:95 or 101
initialize_bind_l2(t) ==
    /\ pc[t] = "half_l2"
    /\ l2_squared_distance_func_' = sel[t]
    /\ Goto(t, "half_ip")
    /\ UNCHANGED <<bitVars, initialized_, has_f16c_support_, inner_product_func_,
                   cosine_similarity_func_, l1_distance_func_, phase, sel, obs>>
    /\ Fixed

\* halfutils.cpp:96 or 102
initialize_bind_ip(t) ==
    /\ pc[t] = "half_ip"
    /\ inner_product_func_' = sel[t]
    /\ Goto(t, "half_cos")
    /\ UNCHANGED <<bitVars, initialized_, has_f16c_support_,
                   l2_squared_distance_func_, cosine_similarity_func_,
                   l1_distance_func_, phase, sel, obs>>
    /\ Fixed

\* halfutils.cpp:97 or 103
initialize_bind_cos(t) ==
    /\ pc[t] = "half_cos"
    /\ cosine_similarity_func_' = sel[t]
    /\ Goto(t, "half_l1")
    /\ UNCHANGED <<bitVars, initialized_, has_f16c_support_,
                   l2_squared_distance_func_, inner_product_func_,
                   l1_distance_func_, phase, sel, obs>>
    /\ Fixed

\* halfutils.cpp:98 or 104
initialize_bind_l1(t) ==
    /\ pc[t] = "half_l1"
    /\ l1_distance_func_' = sel[t]
    /\ Goto(t, "half_109")
    /\ UNCHANGED <<bitVars, initialized_, has_f16c_support_,
                   l2_squared_distance_func_, inner_product_func_,
                   cosine_similarity_func_, phase, sel, obs>>
    /\ Fixed

\* halfutils.cpp:109: initialized_ = true, and initialize() returns.
initialize_109(t) ==
    /\ pc[t] = "half_109"
    /\ initialized_' = TRUE
    /\ Goto(t, "idle")
    /\ sel' = [sel EXCEPT ![t] = "none"]
    /\ UNCHANGED <<bitVars, has_f16c_support_, l2_squared_distance_func_,
                   inner_product_func_, cosine_similarity_func_,
                   l1_distance_func_, phase, obs>>
    /\ Fixed

\* The std::function bound to a half-vector operation.
HalfBinding(op) ==
    CASE op = "l2_squared_distance" -> l2_squared_distance_func_
      [] op = "inner_product" -> inner_product_func_
      [] op = "cosine_similarity" -> cosine_similarity_func_
      [] op = "l1_distance" -> l1_distance_func_

\* The std::function bound to a bit-vector operation.
BitBinding(op) ==
    CASE op = "hamming_distance" -> hamming_distance_func
      [] op = "jaccard_distance" -> jaccard_distance_func

\* The six bindings of the KernelSet.
Bindings ==
    [op \in HalfOps \cup BitOps |->
        IF op \in HalfOps THEN HalfBinding(op) ELSE BitBinding(op)]

\* A plausible slip: the entry point without its test of initialized_.
HalfKernelCall_unguarded(t, op) ==
    /\ Idle(t)
    /\ obs' = [obs EXCEPT ![t] = <<op, HalfBinding(op)>>]
    /\ Goto(t, "in_call")
    /\ UNCHANGED <<bitVars, halfVars, phase, sel>>
    /\ Fixed

\* A plausible slip: the entry point initializes lazily instead of throwing.
HalfKernelCall_lazy(t, op) ==
    /\ Idle(t)
    /\ obs' = [obs EXCEPT ![t] = <<op, HalfBinding(op)>>]
    /\ initialized_' = TRUE
    /\ Goto(t, "in_call")
    /\ UNCHANGED <<bitVars, has_f16c_support_, l2_squared_distance_func_,
                   inner_product_func_, cosine_similarity_func_, l1_distance_func_,
                   phase, sel>>
    /\ Fixed

\* HalfDistanceCalculator<T>::l2_squared_distance and its three siblings,
\* halfutils.cpp:475-504: HalfutilsError unless initialized_, else the call
\* through the bound function.  obs[t] is what the caller sees happen.
HalfKernelCall(t, op) ==
    /\ Idle(t)
    /\ obs' = [obs EXCEPT ![t] =
                 IF ~initialized_ THEN <<op, "HalfutilsError">>
                 ELSE <<op, HalfBinding(op)>>]
    /\ Goto(t, "in_call")
    /\ UNCHANGED <<bitVars, halfVars, phase, sel>>
    /\ Fixed

\* bit_hamming_distance / bit_jaccard_distance, bitutils.cpp:225-232:
\* get_instance(), then the call through the bound function.
BitKernelCall(t, op) ==
    /\ Idle(t)
    /\ get_instance_effect
    /\ obs' = [obs EXCEPT ![t] = <<op, BitBinding(op)>>]
    /\ Goto(t, "in_call")
    /\ UNCHANGED <<BitHammingDistance, BitJaccardDistance, halfVars, phase, sel>>
    /\ Fixed

\* static constexpr bool supports_f16c(), halfutils.hpp:104-110.
supports_f16c == F16C_SUPPORT /\ has_f16c_support_

\* A thread reads the capability flag through supports_f16c().
supports_f16c_call(t) ==
    /\ Idle(t)
    /\ obs' = [obs EXCEPT ![t] = <<"supports_f16c", supports_f16c>>]
    /\ Goto(t, "in_call")
    /\ UNCHANGED <<bitVars, halfVars, phase, sel>>
    /\ Fixed

\* The C global function pointer a BitVec operation calls through.
BitVecPointer(op) ==
    CASE op = "hamming_distance" -> BitHammingDistance
      [] op = "jaccard_distance" -> BitJaccardDistance

\* What a call through a null function pointer can do: the behaviour is
\* undefined; the process is killed by a fault, or runs whatever is mapped
\* at address 0 and comes back with an arbitrary value.
NullCallOutcomes == {"fault", "arbitrary_result"}

\* BitVec::hamming_distance / BitVec::jaccard_distance on two VarBit of
\* equal length, bitvec.cpp:115-136: validate_dimensions, then the call
\* through BitHammingDistance / BitJaccardDistance with no test of the
\* pointer.  A non-null pointer is the wrapper, which calls
\* bit_hamming_distance / bit_jaccard_distance (bitutils.cpp:245-252).
BitVecCall(t, op) ==
    /\ Idle(t)
    /\ IF BitVecPointer(op) = "null"
       THEN /\ \E outcome \in NullCallOutcomes :
                 obs' = [obs EXCEPT ![t] = <<"BitVec", op, outcome>>]
            /\ UNCHANGED <<instance, hamming_distance_func, jaccard_distance_func>>
       ELSE /\ get_instance_effect
            /\ obs' = [obs EXCEPT ![t] = <<"BitVec", op, BitBinding(op)>>]
    /\ Goto(t, "in_call")
    /\ UNCHANGED <<BitHammingDistance, BitJaccardDistance, halfVars, phase, sel>>
    /\ Fixed

\* The kernel returns to its caller.
KernelReturn(t) ==
    /\ pc[t] = "in_call"
    /\ obs' = [obs EXCEPT ![t] = "none"]
    /\ Goto(t, "idle")
    /\ UNCHANGED <<bitVars, halfVars, phase, sel>>
    /\ Fixed

Next ==
    \/ BitUtilsInitializer
    \/ \E t \in Threads :
        \/ BitUtils_get_instance(t)
        \/ BitUtils_initialize_enter(t)
        \/ BitUtils_initialize_197(t)
        \/ BitUtils_initialize_198(t)
        \/ BitUtils_initialize_203(t)
        \/ BitUtils_initialize_204(t)
        \/ BitvecInit_enter(t)
        \/ BitvecInit_260(t)
        \/ BitvecInit_261(t)
        \/ initialize_86(t)
        \/ HalfvecInit(t)
        \/ detect_cpu_features_63(t)
        \/ detect_cpu_features_67(t)
        \/ initialize_94(t)
        \/ initialize_bind_l2(t)
        \/ initialize_bind_ip(t)
        \/ initialize_bind_cos(t)
        \/ initialize_bind_l1(t)
        \/ initialize_109(t)
        \/ \E op \in HalfOps : HalfKernelCall(t, op)
        \/ \E op \in BitOps : BitKernelCall(t, op)
        \/ supports_f16c_call(t)
        \/ \E op \in BitOps : BitVecCall(t, op)
        \/ KernelReturn(t)

Spec == Init /\ [][Next]_vars

-----------------------------------------------------------------------------
(* Claims about the dispatchers, under Spec.                               *)

\* A thread is inside HalfDistanceCalculator::initialize().
InHalfInitialize(t) ==
    pc[t] \in {"half_63", "half_67", "half_94", "half_l2", "half_ip",
               "half_cos", "half_l1", "half_109"}

\* The four half-vector operations are bound to one and the same variant.
SameVariant ==
    /\ l2_squared_distance_func_ \in {"default", "f16c"}
    /\ inner_product_func_ = l2_squared_distance_func_
    /\ cosine_similarity_func_ = l2_squared_distance_func_
    /\ l1_distance_func_ = l2_squared_distance_func_

\* A step that writes one of the four half-vector bindings.
HalfBindingWrite ==
    \E t \in Threads :
        \/ initialize_bind_l2(t)
        \/ initialize_bind_ip(t)
        \/ initialize_bind_cos(t)
        \/ initialize_bind_l1(t)

\* C9 (as claimed): when several threads call initialize() concurrently for
\* the first time, under every interleaving no binding is written once
\* is_initialized() is true, and when all of them have returned the four
\* operations are bound to the same variant.
C9_ConcurrentInitializeConverges ==
    [][/\ initialized_ => ~HalfBindingWrite
       /\ (initialized_' /\ \A t \in Threads : ~InHalfInitialize(t)') => SameVariant'
      ]_vars

\* Both dispatchers have completed their first initialization.
FirstInitializationCompleted == phase = "running" /\ instance /\ initialized_

\* C10 (as claimed): once the first initialization has completed, the
\* implementation bound to each of the six operations is the same at every
\* later point, whatever initialize(), HalfvecInit(), get_instance(), the
\* public BitUtils::initialize(), BitvecInit() and kernel calls follow.
C10_BindingsStableAfterInit ==
    [][FirstInitializationCompleted => Bindings' = Bindings]_vars

\* Some thread has run detect_cpu_features() to its end: it is past the
\* call at halfutils.cpp:90, or has returned from initialize().
DetectionCompleted ==
    \/ initialized_
    \/ \E t \in Threads :
          pc[t] \in {"half_94", "half_l2", "half_ip", "half_cos", "half_l1", "half_109"}

\* C11 (as claimed): once the first detection has produced a value, the
\* flag read through supports_f16c() has that value at every later moment,
\* also while detect_cpu_features() runs again in another thread.
C11_CapabilityFlagStable ==
    [][DetectionCompleted => supports_f16c' = supports_f16c]_vars

\* C12 (as claimed): after initialization every operation is bound to a
\* kernel, and to the accelerated kernel only on a CPU that has the
\* extension, for every build and every machine.
C12_AcceleratedOnlyIfCpuSupports ==
    /\ instance =>
          \A op \in BitOps :
            /\ BitBinding(op) \in {"default", "avx512"}
            /\ BitBinding(op) = "avx512" => cpu_avx512
    /\ initialized_ =>
          \A op \in HalfOps :
            /\ HalfBinding(op) \in {"default", "f16c"}
            /\ HalfBinding(op) = "f16c" => cpu_f16c

\* Thread t starts a call of one of the four half-vector entry points.
HalfEntryCalled(t) ==
    /\ pc[t] = "idle"
    /\ pc'[t] = "in_call"
    /\ obs'[t][1] \in HalfOps

\* C13: a call of a half-vector entry point made while is_initialized() is
\* false ends in HalfutilsError and in no result; a call made once
\* initialize() has returned goes to a bound kernel.
C13_HalfutilsErrorBeforeInit ==
    [][\A t \in Threads :
         HalfEntryCalled(t) =>
           IF initialized_
           THEN obs'[t][2] \in {"default", "f16c"}
           ELSE obs'[t][2] = "HalfutilsError"
      ]_vars

\* One thread's call was refused before initialization while another
\* thread's call, made after initialize() returned, runs a kernel.
C13_Witness ==
    \E t \in Threads, u \in Threads :
      /\ pc[t] = "in_call" /\ obs[t] = <<"l2_squared_distance", "HalfutilsError">>
      /\ pc[u] = "in_call" /\ obs[u] = <<"cosine_similarity", "default">>
      /\ initialized_

\* C14 (as claimed): a BitVec operation invoked before BitvecInit() has set
\* the global pointers ends in a diagnosed error, never in a call through
\* a null function pointer.
C14_BitVecBeforeInitDiagnosed ==
    \A t \in Threads :
      (pc[t] = "in_call" /\ obs[t][1] = "BitVec") => obs[t][3] \notin NullCallOutcomes

-----------------------------------------------------------------------------
(* Claims about the half-vector kernels, checked under SpecHalf.            *)

\* C15: each of the eight kernels (four scalar, four accelerated) ends in
\* std::invalid_argument whenever dim <= 0, dim > 16000 or an operand
\* pointer is null, and returns a number only when 1 <= dim <= 16000 and
\* both pointers are non-null.
C15_InvalidArgumentOnBadInput ==
    v_call.fn # "none" =>
      LET bad == v_dim <= 0 \/ v_dim > 16000 \/ v_ax.null \/ v_bx.null
      IN  /\ bad => (v_call.threw = "std::invalid_argument" /\ v_call.ret = <<>>)
          /\ v_call.threw = "none" => (~bad /\ Len(v_call.ret) = 1)

\* An accelerated kernel refused dim = 16001 with valid pointers, and (in
\* another behaviour) a scalar kernel refused dim = 0.
C15_Witness ==
    /\ v_call.fn = "cosine_similarity_f16c"
    /\ v_dim = 16001 /\ ~v_ax.null /\ ~v_bx.null
    /\ v_call.threw = "std::invalid_argument"
    /\ v_call.what = "Dimensions exceed maximum allowed"

\* Every element of the array is +0 (0x0000) or -0 (0x8000).
AllZero(p) == \A i \in 1..Len(p.data) : p.data[i] \in {0, 32768}

CosineCalls == {"cosine_similarity_default", "cosine_similarity_f16c"}

\* C16: for every valid dim, the scalar and the accelerated cosine
\* similarity end in std::invalid_argument, and return nothing, when a or b
\* is an all-zero half vector, whatever the signs of its zeros.
C16_CosineZeroVectorThrows ==
    ( /\ v_call.fn \in CosineCalls
      /\ v_dim >= 1 /\ v_dim <= 16000
      /\ ~v_ax.null /\ ~v_bx.null
      /\ AllZero(v_ax) \/ AllZero(v_bx) ) =>
        /\ v_call.threw = "std::invalid_argument"
        /\ v_call.what = "Cannot compute cosine similarity of zero vectors"
        /\ v_call.ret = <<>>

\* The accelerated kernel, over a full block and a remainder, refused an a
\* made of +0 and -0 in turn against a b that is not zero.
C16_Witness ==
    /\ v_call.fn = "cosine_similarity_f16c"
    /\ v_dim > F16CLanes
    /\ ~v_ax.null /\ ~v_bx.null
    /\ AllZero(v_ax) /\ v_ax.data[2] = 32768 /\ v_ax.data[1] = 0
    /\ ~AllZero(v_bx)
    /\ v_call.threw = "std::invalid_argument"

\* C17 (as claimed): whenever a kernel ends in std::invalid_argument, for
\* any of its three causes, no element of an operand has been read or
\* accumulated at the moment it is thrown.
C17_ThrownBeforeAnyLoop ==
    v_call.threw = "std::invalid_argument" => v_call.reads = 0

L2Calls == {"l2_squared_distance_default", "l2_squared_distance_f16c"}
IpCalls == {"inner_product_default", "inner_product_f16c"}
L1Calls == {"l1_distance_default", "l1_distance_f16c"}

\* C19 (as claimed): for dim = 3 and a = b = [1, 2, 3] (0x3C00, 0x4000,
\* 0x4200) the kernels return l2 = 0, inner product = 14, cosine = 1.0
\* exactly (numerator equal to denominator) and l1 = 0.
C19_OneTwoThree ==
    ( /\ v_call.fn # "none"
      /\ v_dim = 3
      /\ v_ax = HalfArray(<<15360, 16384, 16896>>)
      /\ v_bx = HalfArray(<<15360, 16384, 16896>>) ) =>
        /\ v_call.threw = "none"
        /\ v_call.fn \in L2Calls => IsZeroF(v_call.ret[1])
        /\ v_call.fn \in IpCalls => v_call.ret[1] = F32(0, 130, 6291456)
        /\ v_call.fn \in CosineCalls =>
             (v_call.ret[1].num = v_call.ret[1].den /\ ~IsZeroF(v_call.ret[1].den))
        /\ v_call.fn \in L1Calls => IsZeroF(v_call.ret[1])

\* |x - y| <= 10^-4 * max(|x|, |y|), for finite floats x and y.  With
\* d = x - y (exact when x and y are within a factor of two of each other)
\* and g the difference of the exponents of the larger operand and of d,
\* the test is Sig(d) * 10^4 <= Sig(big) * 2^g.
WithinRelativeEpsilon(x, y) ==
    LET d == FSub(x, y)
        big == IF MagLeq(x, y) THEN y ELSE x
        g == Exp2(big) - Exp2(d)
        lhs == WideMul(Sig(d), 10000)
        cut == 2^(24 - g)
        rhs == <<Sig(big) \div cut, (Sig(big) % cut) * 2^g>>
    IN  IF IsZeroF(d) THEN TRUE
        ELSE IF g >= 15 THEN TRUE
        ELSE IF g <= 12 THEN FALSE
        ELSE lhs[1] < rhs[1] \/ (lhs[1] = rhs[1] /\ lhs[2] <= rhs[2])

\* C20 (as claimed): for every valid dim and all finite half vectors, the
\* result of the accelerated l2, inner product and l1 kernel is within 1e-4
\* relative error of the result of the scalar kernel on the same operands.
C20_AcceleratedAgreesWithScalar ==
    /\ (v_call.fn = "l2_squared_distance_f16c" /\ v_call.threw = "none") =>
          WithinRelativeEpsilon(v_call.ret[1],
                                l2_squared_distance_default(v_dim, v_ax, v_bx).ret[1])
    /\ (v_call.fn = "inner_product_f16c" /\ v_call.threw = "none") =>
          WithinRelativeEpsilon(v_call.ret[1],
                                inner_product_default(v_dim, v_ax, v_bx).ret[1])
    /\ (v_call.fn = "l1_distance_f16c" /\ v_call.threw = "none") =>
          WithinRelativeEpsilon(v_call.ret[1],
                                l1_distance_default(v_dim, v_ax, v_bx).ret[1])

-----------------------------------------------------------------------------
(* Claims about the frame of a kernel call, checked under Spec.             *)

\* Thread t starts a call of one of the six dispatched operations.
KernelEntryCalled(t) ==
    /\ pc[t] = "idle"
    /\ pc'[t] = "in_call"
    /\ obs'[t][1] \in HalfOps \cup BitOps

\* C21: a call of any of the six operations, and its return, leaves the
\* six dispatch bindings, the initialized flag, the capability flag and the
\* caller's operand buffers as they were, whatever the other threads' calls
\* are doing.
C21_KernelCallIsPure ==
    [][(\E t \in Threads : KernelEntryCalled(t) \/ (pc[t] = "in_call" /\ pc'[t] = "idle")) =>
         /\ Bindings' = Bindings
         /\ initialized_' = initialized_
         /\ has_f16c_support_' = has_f16c_support_
         /\ instance' = instance
         /\ UNCHANGED <<k_a, k_b, v_ax, v_bx>>
      ]_vars

\* Two threads are inside kernel calls at once, one in a bit operation and
\* one in a half operation that reached its bound kernel.
C21_Witness ==
    \E t \in Threads, u \in Threads :
      /\ t # u
      /\ pc[t] = "in_call" /\ obs[t][1] = "jaccard_distance"
      /\ pc[u] = "in_call" /\ obs[u][1] = "inner_product"
      /\ obs[u][2] \in {"default", "f16c"}

-----------------------------------------------------------------------------
(* Further claims about the codec, checked under SpecCodec.                 *)

\* The half stated for the float with sign s, exponent field E and mantissa
\* M: E = 255 gives (s<<15) | 0x7c00 | (M != 0 ? 1 : 0); otherwise, with
\* e = E - 112, e >= 31 gives (s<<15) | 0x7c00, e <= 0 gives (s<<15), and
\* 1 <= e <= 30 gives (s<<15) | (((e<<10) | (M>>13)) + bit 12 of M).
StatedHalfEncoding(f) ==
    LET e == f.e - 112
    IN  IF f.e = 255 THEN f.s * 32768 + 31744 + (IF f.m # 0 THEN 1 ELSE 0)
        ELSE IF e >= 31 THEN f.s * 32768 + 31744
        ELSE IF e <= 0 THEN f.s * 32768
        ELSE f.s * 32768 + (e * 1024 + f.m \div 8192) + ((f.m \div 4096) % 2)

\* float_to_half has been applied to the value the state holds in c_float.
FloatToHalfApplied ==
    \/ c_mode = "float" /\ c_pc >= 1
    \/ c_mode = "half" /\ c_pc = 2

\* C23: for every float bit pattern, floatToHalf returns the stated
\* encoding: NaN and infinity keep sign and a nonzero-mantissa flag, large
\* exponents give signed infinity, small ones signed zero, and the normal
\* range rounds on bit 12 with the carry going into the exponent.
C23_FloatToHalfEncoding ==
    (c_mode = "float" /\ c_pc >= 1) => c_half = StatedHalfEncoding(c_f0)

\* The rounding carry left the mantissa, raised the exponent to 31 and
\* gave infinity: 0x477FF000 became 0x7C00.
C23_Witness ==
    /\ c_mode = "float" /\ c_pc = 1
    /\ c_f0 = F32(0, 142, 1023 * 8192 + 4096)
    /\ c_half = 31744

\* f < g, for finite non-negative floats f and g
FloatLess(f, g) == ~DyadicLeq(Sig(g), Exp2(g), Sig(f), Exp2(f))

\* C28 (as claimed): halfToFloat is strictly increasing on the non-negative
\* finite halves 0x0000..0x7bff; stated on neighbours h, h + 1, which is
\* the same by transitivity.
C28_HalfToFloatMonotone ==
    (c_mode = "half" /\ c_pc = 1 /\ c_h0 < 31743) =>
        FloatLess(c_float, half_to_float(c_h0 + 1))

\* C30: floatToHalf never returns a subnormal half: when the 5-bit exponent
\* field of the result is 0 its 10-bit mantissa field is 0 too, and the
\* result is a 16-bit value.
C30_NoSubnormalHalf ==
    FloatToHalfApplied =>
        /\ c_half \in 0..65535
        /\ (c_half \div 1024) % 32 = 0 => c_half % 1024 = 0

\* A negative float below the smallest normal half, with a full mantissa,
\* became -0 (0x8000).
C30_Witness ==
    /\ c_mode = "float" /\ c_pc = 1
    /\ c_f0 = F32(1, 112, 1023 * 8192 + 8191)
    /\ c_half = 32768

-----------------------------------------------------------------------------
(* Further claims about the bit kernels, checked under SpecBits.            *)

\* C24: for every split n = n1 + n2 of the buffers, the Hamming distance of
\* the second segment seeded with the distance of the first is the distance
\* of the whole, for the scalar and for the AVX-512 kernel.
C24_HammingSeedComposes ==
    /\ k_call.fn = "hamming_distance_default" =>
          \A n1 \in 0..k_bytes :
            hamming_distance_default(
                k_bytes - n1, Advance(Ptr(k_a), n1), Advance(Ptr(k_b), n1),
                hamming_distance_default(n1, Ptr(k_a), Ptr(k_b), k_seed)) = k_call.ret
    /\ k_call.fn = "hamming_distance_avx512_popcount" =>
          \A n1 \in 0..k_bytes :
            hamming_distance_avx512_popcount(
                k_bytes - n1, Advance(Ptr(k_a), n1), Advance(Ptr(k_b), n1),
                hamming_distance_avx512_popcount(n1, Ptr(k_a), Ptr(k_b), k_seed)) = k_call.ret

\* The AVX-512 kernel measured a buffer of a block and a remainder, with a
\* nonzero seed and a nonzero distance of its own.
C24_Witness ==
    /\ k_call.fn = "hamming_distance_avx512_popcount"
    /\ k_bytes > BlockBytes
    /\ k_seed > 0
    /\ k_call.ret > k_seed

\* C25 (as claimed): with andSeed = 0 the dispatched jaccardDistance,
\* whichever kernel is bound, returns a value in [0, 1].
C25_JaccardInUnitInterval ==
    (k_call.fn = "BitUtils::jaccard_distance" /\ k_seed = 0) =>
        /\ k_call.ret.num >= 0
        /\ k_call.ret.num <= k_call.ret.den

-----------------------------------------------------------------------------
(* SpecVector: the construction of one Vector (vector.hpp:21-40, 85).       *)

\* constexpr int VECTOR_MAX_DIM
VECTOR_MAX_DIM == 16000

\* The conversion of an int to int16_t: the value modulo 2^16, as every
\* two's-complement target does it.
Int16(x) == ((x + 32768) % 65536) - 32768

NoVector == [made |-> FALSE, threw |-> "none", dim |-> 0]

\* explicit Vector(int dimensions) : vl_len_(0), dim(dimensions), unused(0):
\* the member dim is an int16_t initialized from the int, and the two tests
\* are made on the member.
Vector_ctor(dimensions) ==
    LET dim == Int16(dimensions)
    IN  IF dim <= 0
        THEN [made |-> FALSE, threw |-> "std::invalid_argument", dim |-> 0]
        ELSE IF dim > VECTOR_MAX_DIM
        THEN [made |-> FALSE, threw |-> "std::invalid_argument", dim |-> 0]
        ELSE [made |-> TRUE, threw |-> "none", dim |-> dim]

\* int getDim() const { return dim; }
getDim(v) == v.dim

VectorArgs ==
    {base + d : base \in {0, 32768, 65536}, d \in (0 - MaxVecDim)..MaxVecDim}
      \cup {VECTOR_MAX_DIM - 1, VECTOR_MAX_DIM, VECTOR_MAX_DIM + 1,
            65536 + VECTOR_MAX_DIM, 1 - 65536}

InitVector ==
    /\ AVX512F = FALSE
    /\ F16C_SUPPORT = FALSE
    /\ cpu_f16c = FALSE
    /\ cpu_avx512 = FALSE
    /\ DispatcherIdle
    /\ KernelIdle
    /\ CodecIdle
    /\ HalfKernelIdle
    /\ BitVecIdle
    /\ HalfVecIdle
    /\ vec_arg \in VectorArgs
    /\ vec_obj = NoVector
    /\ vec_got = <<>>

NotVectorVars ==
    <<buildVars, bitVars, halfVars, threadVars, kernelVars, codecVars,
      halfKernelVars, bitvecVars, halfvecVars>>

\* Vector v(vec_arg);
Vector_construct ==
    /\ vec_obj = NoVector
    /\ vec_obj' = Vector_ctor(vec_arg)
    /\ UNCHANGED <<vec_arg, vec_got>>
    /\ UNCHANGED NotVectorVars

\* v.getDim()
Vector_getDim ==
    /\ vec_obj.made
    /\ vec_got = <<>>
    /\ vec_got' = <<getDim(vec_obj)>>
    /\ UNCHANGED <<vec_arg, vec_obj>>
    /\ UNCHANGED NotVectorVars

NextVector == Vector_construct \/ Vector_getDim

SpecVector == InitVector /\ [][NextVector]_vars

\* C26 (as claimed): the constructor accepts exactly the arguments
\* 1..16000, throws std::invalid_argument for every other int, values
\* above 32767 included, and getDim() returns the accepted argument.
C26_VectorAcceptsExactlyValidDims ==
    /\ vec_obj # NoVector =>
          IF vec_arg >= 1 /\ vec_arg <= 16000
          THEN vec_obj.made
          ELSE vec_obj.threw = "std::invalid_argument"
    /\ vec_got # <<>> => vec_got[1] = vec_arg

-----------------------------------------------------------------------------
(* SpecBitVec: BitVec objects and the VarBit buffers they own               *)
(* (bitvec.cpp:15-136, 141-154).  A BitVec holds a                          *)
(* std::unique_ptr<VarBit, void(*)(VarBit*)> whose deleter is               *)
(* delete_varbit; buffers come from palloc and go back with pfree.          *)
(* Addresses are 1, 2, ... in order of allocation, 0 is nullptr.  A machine *)
(* state m is the heap, the objects and the first memory fault made.        *)

Objs == 1..MaxObjs

Machine(heap, obj, fault) == [heap |-> heap, obj |-> obj, fault |-> fault]

\* The first fault is kept.
Fault(m, what) == IF m.fault = "none" THEN [m EXCEPT !.fault = what] ELSE m

\* palloc / palloc0 of a VarBit of len bits: the new buffer's address is
\* Len(m.heap) + 1.
palloc(m, len) == [m EXCEPT !.heap = Append(@, [state |-> "live", len |-> len])]

\* pfree(ptr): freeing a buffer that is not live is a double free.
pfree(m, ptr) ==
    IF m.heap[ptr].state = "live"
    THEN [m EXCEPT !.heap[ptr].state = "freed"]
    ELSE Fault(m, "double_free")

\* A read through ptr (VARSIZE, VARBITLEN, memcpy from the buffer).
ReadVarBit(m, ptr) ==
    IF m.heap[ptr].state = "live" THEN m ELSE Fault(m, "use_after_free")

\* void BitVec::delete_varbit(VarBit* ptr)
delete_varbit(m, ptr) == IF ptr # 0 THEN pfree(m, ptr) ELSE m

\* std::unique_ptr::reset(p) on the data of object s: the new pointer is
\* stored, then the deleter runs on the old one when it is not null.
unique_ptr_reset(m, s, p) ==
    LET old == m.obj[s].data
        m1 == [m EXCEPT !.obj[s].data = p]
    IN  IF old # 0 THEN delete_varbit(m1, old) ELSE m1

\* BitVec::BitVec(int dim) in storage s; the outcome is the exception
\* thrown or "none".
BitVec_ctor(m, s, dim) ==
    IF dim <= 0
    THEN [m |-> m, threw |-> "BitVecException"]
    ELSE LET m1 == palloc(m, dim)
         IN  [m |-> [m1 EXCEPT !.obj[s] = [alive |-> TRUE, data |-> Len(m1.heap)]],
              threw |-> "none"]

\* BitVec::BitVec(const BitVec& other), constructing s from o
BitVec_copy_ctor(m, s, o) ==
    IF m.obj[o].data # 0
    THEN LET m1 == ReadVarBit(m, m.obj[o].data)
             m2 == palloc(m1, m1.heap[m1.obj[o].data].len)
         IN  [m2 EXCEPT !.obj[s] = [alive |-> TRUE, data |-> Len(m2.heap)]]
    ELSE [m EXCEPT !.obj[s] = [alive |-> TRUE, data |-> 0]]

\* BitVec& BitVec::operator=(const BitVec& other), s = o
BitVec_copy_assign(m, s, o) ==
    IF s # o
    THEN IF m.obj[o].data # 0
         THEN LET m1 == ReadVarBit(m, m.obj[o].data)
                  m2 == palloc(m1, m1.heap[m1.obj[o].data].len)
              IN  unique_ptr_reset(m2, s, Len(m2.heap))
         ELSE unique_ptr_reset(m, s, 0)
    ELSE m

\* A plausible slip: the source keeps its pointer, so two objects own one
\* buffer.
BitVec_move_ctor_shared(m, s, o) ==
    [m EXCEPT !.obj[s] = [alive |-> TRUE, data |-> m.obj[o].data]]

\* BitVec::BitVec(BitVec&& other) noexcept : data(std::move(other.data)),
\* then other.data.reset()
BitVec_move_ctor(m, s, o) ==
    LET m1 == [m EXCEPT !.obj[s] = [alive |-> TRUE, data |-> m.obj[o].data],
                        !.obj[o].data = 0]
    IN  unique_ptr_reset(m1, o, 0)

\* BitVec& BitVec::operator=(BitVec&& other) noexcept, s = std::move(o):
\* data = std::move(other.data) is reset(other.data.release()).
BitVec_move_assign(m, s, o) ==
    IF s # o
    THEN LET p == m.obj[o].data
             m1 == [m EXCEPT !.obj[o].data = 0]
             m2 == unique_ptr_reset(m1, s, p)
         IN  unique_ptr_reset(m2, o, 0)
    ELSE m

\* ~BitVec() = default: the unique_ptr runs the deleter on a non-null data.
BitVec_dtor(m, s) ==
    LET m1 == IF m.obj[s].data # 0 THEN delete_varbit(m, m.obj[s].data) ELSE m
    IN  [m1 EXCEPT !.obj[s] = NoObject]

\* VarBit* InitBitVector(int dim): a temporary BitVec is created, its
\* pointer taken with get(), its ownership given up with data.release(),
\* and the temporary destroyed on return.  ret is the pointer returned, 0
\* when the constructor threw and ereport(ERROR) took over.
InitBitVector(m, dim) ==
    IF dim <= 0
    THEN [m |-> m, ret |-> 0, threw |-> "ereport(ERROR)"]
    ELSE LET m1 == palloc(m, dim)
             result == Len(m1.heap)
             released == 0
         IN  [m |-> delete_varbit(m1, released), ret |-> result, threw |-> "none"]

\* int BitVec::get_dimension() const: the exception, or "none" and the
\* length read.
BitVec_get_dimension(m, s) ==
    IF m.obj[s].data = 0
    THEN [m |-> m, threw |-> "BitVecException", ret |-> 0]
    ELSE [m |-> ReadVarBit(m, m.obj[s].data), threw |-> "none",
          ret |-> m.heap[m.obj[s].data].len]

\* A plausible slip: the byte counts (VARBITBYTES) are compared instead of
\* the bit lengths.
BitVec_validate_dimensions_bytes(la, lb) == (la + 7) \div 8 = (lb + 7) \div 8

\* void BitVec::validate_dimensions(const VarBit& a, const VarBit& b):
\* TRUE when it returns, FALSE when it throws DimensionMismatchException.
BitVec_validate_dimensions(la, lb) == la = lb

\* double BitVec::hamming_distance(const VarBit& a, const VarBit& b) and
\* jaccard_distance: validate_dimensions, then the call through the C
\* global pointer; through_null is what that call does when the pointer is
\* null.
BitVec_distance_VarBit(op, la, lb, through_null) ==
    IF ~BitVec_validate_dimensions(la, lb) THEN "DimensionMismatchException"
    ELSE IF BitVecPointer(op) = "null" THEN through_null
    ELSE "kernel_result"

\* double BitVec::hamming_distance(const BitVec& a, const BitVec& b) and
\* jaccard_distance
BitVec_distance(m, op, a, b, through_null) ==
    IF m.obj[a].data = 0 \/ m.obj[b].data = 0
    THEN [m |-> m, outcome |-> "BitVecException"]
    ELSE LET m1 == ReadVarBit(ReadVarBit(m, m.obj[a].data), m.obj[b].data)
         IN  [m |-> m1,
              outcome |-> BitVec_distance_VarBit(op, m.heap[m.obj[a].data].len,
                                                 m.heap[m.obj[b].data].len,
                                                 through_null)]

\* The machine state held in the variables.
Now == Machine(bv_heap, bv_obj, bv_fault)

Become(m) ==
    /\ bv_heap' = m.heap
    /\ bv_obj' = m.obj
    /\ bv_fault' = m.fault

BitVecCalled(op, outcome, dst, src, la, lb) ==
    [op |-> op, outcome |-> outcome, dst |-> dst, src |-> src, la |-> la, lb |-> lb]

\* Another buffer can be allocated within the bound.
CanAlloc == Len(bv_heap) < MaxBufs

BitLens == 0..MaxBitLen

\* The C global pointers are both null (BitvecInit() not called) or both
\* set (BitvecInit() has returned); the singleton exists.
InitBitVec ==
    /\ AVX512F = FALSE
    /\ F16C_SUPPORT = FALSE
    /\ cpu_f16c = FALSE
    /\ cpu_avx512 = FALSE
    /\ instance = TRUE
    /\ hamming_distance_func = BoundBitKernel
    /\ jaccard_distance_func = BoundBitKernel
    /\ \/ BitHammingDistance = "null" /\ BitJaccardDistance = "null"
       \/ /\ BitHammingDistance = "c_hamming_distance_wrapper"
          /\ BitJaccardDistance = "c_jaccard_distance_wrapper"
    /\ initialized_ = FALSE
    /\ has_f16c_support_ = FALSE
    /\ l2_squared_distance_func_ = "empty"
    /\ inner_product_func_ = "empty"
    /\ cosine_similarity_func_ = "empty"
    /\ l1_distance_func_ = "empty"
    /\ phase = "running"
    /\ pc = [t \in 1..NumThreads |-> "idle"]
    /\ sel = [t \in 1..NumThreads |-> "none"]
    /\ obs = [t \in 1..NumThreads |-> "none"]
    /\ KernelIdle
    /\ CodecIdle
    /\ HalfKernelIdle
    /\ VectorIdle
    /\ HalfVecIdle
    /\ BitVecIdle

NotBitVecVars ==
    <<buildVars, bitVars, halfVars, threadVars, kernelVars, codecVars,
      halfKernelVars, vectorVars, halfvecVars>>

\* BitVec s(dim);
BitVec_construct(s, dim) ==
    /\ ~bv_obj[s].alive
    /\ CanAlloc
    /\ LET r == BitVec_ctor(Now, s, dim)
       IN  /\ Become(r.m)
           /\ bv_call' = BitVecCalled("construct", r.threw, s, 0, dim, 0)
    /\ UNCHANGED bv_raw
    /\ UNCHANGED NotBitVecVars

\* BitVec s(o);
BitVec_copy_construct(s, o) ==
    /\ ~bv_obj[s].alive
    /\ bv_obj[o].alive
    /\ bv_obj[o].data = 0 \/ CanAlloc
    /\ Become(BitVec_copy_ctor(Now, s, o))
    /\ bv_call' = BitVecCalled("copy_construct", "none", s, o, 0, 0)
    /\ UNCHANGED bv_raw
    /\ UNCHANGED NotBitVecVars

\* s = o;
BitVec_copy_assignment(s, o) ==
    /\ bv_obj[s].alive
    /\ bv_obj[o].alive
    /\ s = o \/ bv_obj[o].data = 0 \/ CanAlloc
    /\ Become(BitVec_copy_assign(Now, s, o))
    /\ bv_call' = BitVecCalled("copy_assign", "none", s, o, 0, 0)
    /\ UNCHANGED bv_raw
    /\ UNCHANGED NotBitVecVars

\* BitVec s(std::move(o));
BitVec_move_construct(s, o) ==
    /\ ~bv_obj[s].alive
    /\ bv_obj[o].alive
    /\ Become(BitVec_move_ctor(Now, s, o))
    /\ bv_call' = BitVecCalled("move_construct", "none", s, o, 0, 0)
    /\ UNCHANGED bv_raw
    /\ UNCHANGED NotBitVecVars

\* s = std::move(o);
BitVec_move_assignment(s, o) ==
    /\ bv_obj[s].alive
    /\ bv_obj[o].alive
    /\ Become(BitVec_move_assign(Now, s, o))
    /\ bv_call' = BitVecCalled("move_assign", "none", s, o, 0, 0)
    /\ UNCHANGED bv_raw
    /\ UNCHANGED NotBitVecVars

\* The object in storage s goes out of scope.
BitVec_destroy(s) ==
    /\ bv_obj[s].alive
    /\ Become(BitVec_dtor(Now, s))
    /\ bv_call' = BitVecCalled("destroy", "none", s, 0, 0, 0)
    /\ UNCHANGED bv_raw
    /\ UNCHANGED NotBitVecVars

\* VarBit* p = InitBitVector(dim);
Call_InitBitVector(dim) ==
    /\ CanAlloc
    /\ LET r == InitBitVector(Now, dim)
       IN  /\ Become(r.m)
           /\ bv_raw' = IF r.ret # 0 THEN bv_raw \cup {r.ret} ELSE bv_raw
           /\ bv_call' = BitVecCalled("InitBitVector", r.threw, r.ret, 0, dim, 0)
    /\ UNCHANGED NotBitVecVars

\* s.get_dimension()
Call_get_dimension(s) ==
    /\ bv_obj[s].alive
    /\ LET r == BitVec_get_dimension(Now, s)
       IN  /\ Become(r.m)
           /\ bv_call' = BitVecCalled("get_dimension", r.threw, s, 0, r.ret, 0)
    /\ UNCHANGED bv_raw
    /\ UNCHANGED NotBitVecVars

\* The bit length of the buffer of object s, 0 when it holds none.
LenOf(s) == IF bv_obj[s].data = 0 THEN 0 ELSE bv_heap[bv_obj[s].data].len

\* BitVec::hamming_distance(a, b) or BitVec::jaccard_distance(a, b)
Call_BitVec_distance(op, a, b) ==
    /\ bv_obj[a].alive
    /\ bv_obj[b].alive
    /\ \E through_null \in NullCallOutcomes :
          LET r == BitVec_distance(Now, op, a, b, through_null)
          IN  /\ Become(r.m)
              /\ bv_call' = BitVecCalled(op, r.outcome, a, b, LenOf(a), LenOf(b))
    /\ UNCHANGED bv_raw
    /\ UNCHANGED NotBitVecVars

NextBitVec ==
    \/ \E s \in Objs, dim \in BitLens : BitVec_construct(s, dim)
    \/ \E s \in Objs, o \in Objs : BitVec_copy_construct(s, o)
    \/ \E s \in Objs, o \in Objs : BitVec_copy_assignment(s, o)
    \/ \E s \in Objs, o \in Objs : BitVec_move_construct(s, o)
    \/ \E s \in Objs, o \in Objs : BitVec_move_assignment(s, o)
    \/ \E s \in Objs : BitVec_destroy(s)
    \/ \E dim \in BitLens : Call_InitBitVector(dim)
    \/ \E s \in Objs : Call_get_dimension(s)
    \/ \E op \in BitOps, a \in Objs, b \in Objs : Call_BitVec_distance(op, a, b)

SpecBitVec == InitBitVec /\ [][NextBitVec]_vars

\* C22: BitVec::hamming_distance and BitVec::jaccard_distance on two
\* buffers of different bit lengths end in DimensionMismatchException, and
\* the call through BitHammingDistance / BitJaccardDistance is reached only
\* with equal lengths.
C22_DimensionCheckedBeforeKernel ==
    (bv_call.op \in BitOps /\ bv_call.la # 0 /\ bv_call.lb # 0) =>
        /\ bv_call.la # bv_call.lb => bv_call.outcome = "DimensionMismatchException"
        /\ bv_call.outcome \in NullCallOutcomes \cup {"kernel_result"} =>
              bv_call.la = bv_call.lb

\* A Jaccard distance of a 1-bit and a 2-bit vector was refused while the
\* pointers were set.
C22_Witness ==
    /\ bv_call.op = "jaccard_distance"
    /\ bv_call.la = 1 /\ bv_call.lb = 2
    /\ bv_call.outcome = "DimensionMismatchException"
    /\ BitJaccardDistance # "null"

\* The objects that exist and hold a buffer.
Owners == {s \in Objs : bv_obj[s].alive /\ bv_obj[s].data # 0}

\* C27: under every sequence of constructions, copies, moves, destructions
\* and InitBitVector calls no buffer is freed twice or used after being
\* freed; every buffer an object holds is live and held by that object
\* alone; a buffer returned by InitBitVector is live and held by no object;
\* the source of a move holds no buffer afterwards; and get_dimension and
\* the two distances on an object without a buffer throw BitVecException.
C27_BitVecOwnershipSafe ==
    /\ bv_fault = "none"
    /\ \A s \in Owners : bv_heap[bv_obj[s].data].state = "live"
    /\ \A s \in Owners, t \in Owners : s # t => bv_obj[s].data # bv_obj[t].data
    /\ \A p \in bv_raw :
          /\ bv_heap[p].state = "live"
          /\ \A s \in Owners : bv_obj[s].data # p
    /\ (bv_call.op \in {"move_construct", "move_assign"} /\ bv_call.dst # bv_call.src) =>
          bv_obj[bv_call.src].data = 0
    /\ (bv_call.op = "get_dimension" /\ bv_obj[bv_call.dst].data = 0) =>
          bv_call.outcome = "BitVecException"
    /\ (bv_call.op \in BitOps
          /\ (bv_obj[bv_call.dst].data = 0 \/ bv_obj[bv_call.src].data = 0)) =>
          bv_call.outcome = "BitVecException"

\* A moved-from object was asked its dimension and threw, while the object
\* it was moved into holds the buffer and InitBitVector has handed out
\* another.
C27_Witness ==
    /\ bv_call.op = "get_dimension"
    /\ bv_call.outcome = "BitVecException"
    /\ \E s \in Owners : s # bv_call.dst
    /\ bv_raw # {}
    /\ \E p \in 1..Len(bv_heap) : bv_heap[p].state = "freed"

\* ---------------------------------------------------------------------
\* SpecHalfVec: concatenation and extraction of half vectors
\* (halfvec.cpp:482-501, 522-539).  A half vector is a record with its
\* dim field and its element array x of 16-bit patterns; null is the null
\* pointer.
\* ---------------------------------------------------------------------

HalfVec(dim, x) == [null |-> FALSE, dim |-> dim, x |-> x]

\* HalfVector_p* InitHalfVector(int dim): declared in halfvec.hpp:93 and
\* used by every operation, defined outside src/.  It returns a vector
\* with room for dim elements and the dim field set.
InitHalfVector(dim) == HalfVec(dim, [i \in 1..dim |-> 0])

\* std::memcpy(dst + dstOff, src + srcOff, n * sizeof(half))
Memcpy(dst, dstOff, src, srcOff, n) ==
    [i \in 1..Len(dst) |->
        IF i > dstOff /\ i <= dstOff + n THEN src[srcOff + (i - dstOff)] ELSE dst[i]]

HalfVecReturned(v) == [threw |-> "none", ret |-> v]

HalfVecThrew(what) == [threw |-> what, ret |-> NoHalfVec]

\* HalfVector_p* concat_halfvecs(const HalfVector_p* a, const HalfVector_p* b).
\* HALFVEC_MAX_DIM is a std::size_t, so new_dim is converted to unsigned
\* for the comparison and a negative sum compares greater.
concat_halfvecs(a, b) ==
    IF a.null \/ b.null THEN HalfVecThrew("InvalidInput")
    ELSE LET new_dim == a.dim + b.dim
         IN  IF new_dim < 0 \/ new_dim > HALFVEC_MAX_DIM
             THEN HalfVecThrew("InvalidInput")
             ELSE LET result == InitHalfVector(new_dim)
                      x1 == Memcpy(result.x, 0, a.x, 0, a.dim)
                      x2 == Memcpy(x1, a.dim, b.x, 0, b.dim)
                  IN  HalfVecReturned([result EXCEPT !.x = x2])

\* A plausible slip: the length computed without the + 1.
extract_subvector_short(vec, start, end) ==
    IF vec.null THEN HalfVecThrew("InvalidInput")
    ELSE IF start < 1 \/ start > vec.dim THEN HalfVecThrew("InvalidInput")
    ELSE IF end < start \/ end > vec.dim THEN HalfVecThrew("InvalidInput")
    ELSE LET new_dim == end - start
             result == InitHalfVector(new_dim)
         IN  HalfVecReturned([result EXCEPT
                 !.x = Memcpy(result.x, 0, vec.x, start - 1, new_dim)])

\* HalfVector_p* extract_subvector(const HalfVector_p* vec, int start, int end)
extract_subvector(vec, start, end) ==
    IF vec.null THEN HalfVecThrew("InvalidInput")
    ELSE IF start < 1 \/ start > vec.dim THEN HalfVecThrew("InvalidInput")
    ELSE IF end < start \/ end > vec.dim THEN HalfVecThrew("InvalidInput")
    ELSE LET new_dim == end - start + 1
             result == InitHalfVector(new_dim)
         IN  HalfVecReturned([result EXCEPT
                 !.x = Memcpy(result.x, 0, vec.x, start - 1, new_dim)])

\* Element bit patterns of the short input vectors: +0, 1.0 and a NaN.
HvElems == {0, 15360, 65535}

\* The short input vectors, every element chosen freely.
ShortHalfVecs ==
    UNION {{HalfVec(d, x) : x \in [1..d -> HvElems]} : d \in 1..MaxHvDim}

\* A long input vector whose elements are pairwise different.
LongHalfVec(d, base) == HalfVec(d, [i \in 1..d |-> (base + i) % 65536])

\* The operand pairs: short vectors or null on either side, and a first
\* operand one below and at the dimension limit with a one-element second.
HvPairs ==
    ((ShortHalfVecs \cup {NoHalfVec}) \X (ShortHalfVecs \cup {NoHalfVec}))
        \cup {<<LongHalfVec(d, 0), HalfVec(1, <<15360>>)>> :
                 d \in {HALFVEC_MAX_DIM - 1, HALFVEC_MAX_DIM}}

InitHalfVec ==
    /\ AVX512F = FALSE
    /\ F16C_SUPPORT = FALSE
    /\ cpu_f16c = FALSE
    /\ cpu_avx512 = FALSE
    /\ DispatcherIdle
    /\ KernelIdle
    /\ CodecIdle
    /\ HalfKernelIdle
    /\ VectorIdle
    /\ BitVecIdle
    /\ \E p \in HvPairs : hv_a = p[1] /\ hv_b = p[2]
    /\ hv_c = NoHalfVecCall
    /\ hv_sub = NoHalfVecCall

NotHalfVecVars ==
    <<buildVars, bitVars, halfVars, threadVars, kernelVars, codecVars,
      halfKernelVars, vectorVars, bitvecVars>>

HalfVecCalled(r, start, end) ==
    [called |-> TRUE, threw |-> r.threw, ret |-> r.ret, start |-> start, end |-> end]

\* c = concat_halfvecs(a, b)
Call_concat_halfvecs ==
    /\ ~hv_c.called
    /\ hv_c' = HalfVecCalled(concat_halfvecs(hv_a, hv_b), 0, 0)
    /\ UNCHANGED <<hv_a, hv_b, hv_sub>>
    /\ UNCHANGED NotHalfVecVars

\* The positions tried on c: around both ends of c and around the seam
\* between a and b.
SubPositions ==
    {-1, 0, 1, 2} \cup {hv_a.dim, hv_a.dim + 1}
        \cup {hv_c.ret.dim - 1, hv_c.ret.dim, hv_c.ret.dim + 1}

\* sub = extract_subvector(c, start, end)
Call_extract_subvector ==
    /\ hv_c.called
    /\ hv_c.threw = "none"
    /\ \E start \in SubPositions, end \in SubPositions :
          hv_sub' = HalfVecCalled(extract_subvector(hv_c.ret, start, end), start, end)
    /\ UNCHANGED <<hv_a, hv_b, hv_c>>
    /\ UNCHANGED NotHalfVecVars

NextHalfVec ==
    \/ Call_concat_halfvecs
    \/ Call_extract_subvector

SpecHalfVec == InitHalfVec /\ [][NextHalfVec]_vars

\* C29: for half vectors a and b, concat_halfvecs(a, b) throws InvalidInput
\* when a.dim + b.dim > 16000 and otherwise returns c of dim a.dim + b.dim;
\* extract_subvector(c, 1, a.dim) equals a and
\* extract_subvector(c, a.dim + 1, a.dim + b.dim) equals b, dimension and
\* every element; and extract_subvector throws InvalidInput exactly when
\* 1 <= start <= end <= c.dim fails.
C29_ExtractInvertsConcat ==
    /\ (hv_c.called /\ ~hv_a.null /\ ~hv_b.null) =>
          IF hv_a.dim + hv_b.dim > 16000
          THEN hv_c.threw = "InvalidInput"
          ELSE hv_c.threw = "none" /\ hv_c.ret.dim = hv_a.dim + hv_b.dim
    /\ hv_sub.called =>
          /\ hv_sub.threw \in {"none", "InvalidInput"}
          /\ hv_sub.threw = "InvalidInput" <=>
                ~(/\ 1 <= hv_sub.start
                  /\ hv_sub.start <= hv_sub.end
                  /\ hv_sub.end <= hv_c.ret.dim)
          /\ (hv_sub.start = 1 /\ hv_sub.end = hv_a.dim) =>
                /\ hv_sub.threw = "none"
                /\ hv_sub.ret.dim = hv_a.dim
                /\ hv_sub.ret.x = hv_a.x
          /\ (hv_sub.start = hv_a.dim + 1 /\ hv_sub.end = hv_a.dim + hv_b.dim) =>
                /\ hv_sub.threw = "none"
                /\ hv_sub.ret.dim = hv_b.dim
                /\ hv_sub.ret.x = hv_b.x

\* The second operand, two elements 1.0 and NaN, was recovered from the
\* concatenation behind a first operand of two elements.
C29_Witness ==
    /\ hv_a.dim = 2
    /\ hv_b.x = <<15360, 65535>>
    /\ hv_c.ret.dim = 4
    /\ hv_sub.called
    /\ hv_sub.start = 3 /\ hv_sub.end = 4
    /\ hv_sub.ret.x = hv_b.x

====
